---------------------------- MODULE Spec2Model ----------------------------
(***************************************************************************)
(* Model of the CCTDI assessment system (MASA-CCTDI).                      *)
(*                                                                         *)
(*   cctdi_agents.py          the four agents: director, navigator,        *)
(*                            diagnostic, scorer, and the response         *)
(*                            normalizer _clean_json_response              *)
(*   cctdi_system.py          CCTDIAssessmentSystem, one session           *)
(*   auto_simu_concurrent.py  SimulationRunner and the thread-pool batch   *)
(*                            runner                                       *)
(*                                                                         *)
(* Specifications:                                                         *)
(*   Spec       one CCTDIAssessmentSystem driven as SimulationRunner and   *)
(*              the web application drive it                               *)
(*   ApiSpec    one CCTDIAssessmentSystem under any sequence of its public *)
(*              operations                                                 *)
(*   BandSpec   the overall-level banding of _complete_assessment          *)
(*   CleanSpec  _clean_json_response over bounded texts                    *)
(*   BatchSpec  ConcurrentBatchSimulationRunner.run over a worker pool     *)
(*                                                                         *)
(* Confidences are in hundredths (0.9 is 90).  Texts returned by the model *)
(* are represented by what json.loads and the field checks make of them.   *)
(***************************************************************************)
EXTENDS Integers, Sequences, FiniteSets, TLC

VARIABLES
    \* ---- one session: CCTDIAssessmentSystem (cctdi_system.py) ----
    has_user,            \* user_id and user_name both given to __init__
    status,              \* system_state["status"]
    current_dimension,   \* system_state["current_dimension"], 0 for None
    interactions,        \* system_state["interactions"]: the mode of each question
    user_responses,      \* system_state["user_responses"]: the kind of each response
    dimension_scores,    \* system_state["dimension_scores"]: dimension -> ScoringResult
    director_dimension,  \* director.current_dimension
    dimension_info,      \* current_work_state["dimension_info"]["dimension_id"], 0 for None
    interaction_count,   \* current_work_state["interaction_count"]
    diagnostic_results,  \* current_work_state["diagnostic_results"]
    report,              \* data/assessments/<session>.json: the last FinalReport written
    score_file,          \* data/user_scores.csv: [exists, lines]
    last_call,           \* the last public operation and what it returned
    history,             \* ghost: what the driver has done so far
    llm,                 \* the texts the model may return in this run
    \* ---- banding ----
    band_total, band_level,
    \* ---- _clean_json_response ----
    clean_input, clean_once, clean_twice,
    \* ---- batch run: ConcurrentBatchSimulationRunner (auto_simu_concurrent.py) ----
    max_workers,         \* self.max_workers
    fate,                \* what the session of each persona file will do
    pc,                  \* where each submitted task is
    round_num,           \* rounds each session has completed
    future,              \* what each future holds: a result or an exception
    lock_holder,         \* the task inside "with _USER_SCORES_LOCK", 0 for none
    file_exists,         \* each task's local file_exists
    written,             \* lines each task's csv writer has buffered
    ledger,              \* data/user_scores.csv shared by the tasks
    collected,           \* futures as_completed has yielded
    results,             \* run's results list
    counts,              \* completed_count, success_count, failed_count
    main_pc,             \* where the main thread is in run
    \* ---- one _call_llm call (cctdi_agents.py) ----
    call_request,        \* who calls: the question, guidance, diagnostic or scoring request
    max_retries,         \* the max_retries argument
    attempt,             \* the loop variable attempt
    invocations,         \* the outcome of each chat.completions.create so far
    waits,               \* the seconds of each time.sleep so far
    last_error,          \* last_error
    call_returned,       \* what _call_llm returned
    call_pc,             \* where the call is
    \* ---- one structured-judgment request of an agent ----
    agent_request, agent_round, agent_texts, agent_out,
    \* ---- one select_interaction_mode call ----
    mode_count, mode_response, mode_out,
    \* ---- two diagnostic requests that differ in the modes ----
    twin_round, twin_modes, twin_replies, twin_out,
    \* ---- the console shared by the worker threads ----
    console_pc,          \* where each thread is in a console write
    console_source,      \* the module whose statement each thread is printing
    console_lock,        \* the thread inside "with PRINT_LOCK", 0 for none
    console_count,       \* console writes each thread has made
    \* ---- an external interrupt of a batch run ----
    interrupt,           \* ghost: whether SIGINT arrived and the sessions then in flight
    \* ---- one session counted ----
    calls,               \* ghost: process_user_response calls the runner has made
    \* ---- the persona files of a batch ----
    persona_names,       \* the file names os.listdir returned, without ".txt"
    persona_files,       \* self.persona_files: what _scan_persona_files returned
    user_info            \* what _extract_user_info and _generate_session_id gave each file

sessionVars == <<has_user, status, current_dimension, interactions, user_responses,
                 dimension_scores, director_dimension, dimension_info,
                 interaction_count, diagnostic_results, report, score_file,
                 last_call, history, llm>>
bandVars    == <<band_total, band_level>>
cleanVars   == <<clean_input, clean_once, clean_twice>>
batchVars   == <<max_workers, fate, pc, round_num, future, lock_holder,
                 file_exists, written, ledger, collected, results, counts, main_pc>>
callVars    == <<call_request, max_retries, attempt, invocations, waits, last_error,
                 call_returned, call_pc>>
agentVars   == <<agent_request, agent_round, agent_texts, agent_out>>
modeVars    == <<mode_count, mode_response, mode_out>>
twinVars    == <<twin_round, twin_modes, twin_replies, twin_out>>
consoleVars == <<console_pc, console_source, console_lock, console_count>>
personaVars == <<persona_names, persona_files, user_info>>
extraVars   == <<consoleVars, interrupt, calls, personaVars>>
functionVars == <<callVars, agentVars, modeVars, twinVars, extraVars>>
vars        == <<sessionVars, bandVars, cleanVars, batchVars, functionVars>>

-----------------------------------------------------------------------------
(* Bounds of the model *)

\* process_user_response calls accepted within one dimension
MaxResponses == 6
\* start_assessment calls in one session
MaxStarts == 2
\* force_score_current_dimension calls in one session
MaxForce == 1
\* characters of a text given to _clean_json_response
MaxTextLen == 4
\* persona files of a batch run
NumUsers == 3
\* worker threads of the pool
MaxWorkers == 2
\* rounds a session of the batch takes to complete
SessionRounds == 3
\* the largest max_retries given to _call_llm
MaxRetries == 4
\* the largest len(interactions) given to analyze_interaction_sufficiency
MaxInteractions == 6
\* the longest response given to select_interaction_mode, in characters
MaxResponseLength == 102
\* console writes of one worker thread
MaxWrites == 3
\* characters of a persona file name, without its extension
MaxNameLen == 4
\* rows earlier sessions left in the ledger
MaxPriorRows == 2

-----------------------------------------------------------------------------
(* Program constants *)

NumDimensions == 7
MinScore == 10
MaxScore == 60
FallbackScore == 43
MaxRounds == 5
MinRounds == 3
DefaultMaxRetries == 3
StructuredMaxRetries == 2

Dimensions == 1..NumDimensions


-----------------------------------------------------------------------------
(* Texts the model returns, as _call_llm hands them to the agents *)

\* What json.loads and the required-field check make of a returned text:
\*   "sentinel"   the failure string of _call_llm (not JSON)
\*   "nonjson"    any other text json.loads rejects
\*   "missing"    a JSON object lacking a required field
\*   "list"       a JSON array or a JSON string
\*   "scalar"     a JSON number, true, false or null
\*   "nocontent"  message.content absent (None)
\*   "object"     a JSON object holding every required field
TextKinds == {"sentinel", "nonjson", "missing", "list", "scalar", "nocontent"}

\* Raw score values the scoring model may put in the "score" field.
RawScores == {5, 75}
ScoreTypes == {"str", "null"}

NoValue == [kind |-> "nocontent", sufficient |-> FALSE, recommendation |-> "",
            confidence |-> 0, score_type |-> "", score |-> 0]

Text(k) == [NoValue EXCEPT !.kind = k]

DiagObject(s, r, c) ==
    [NoValue EXCEPT !.kind = "object", !.sufficient = s, !.recommendation = r,
                    !.confidence = c]

ScoreObject(t, v) ==
    [NoValue EXCEPT !.kind = "object", !.score_type = t, !.score = v]

DiagOutputs ==
    {Text(k) : k \in TextKinds}
    \cup {DiagObject(TRUE, "score", 80), DiagObject(FALSE, "continue", 80),
          DiagObject(FALSE, "score", 80)}

ScoreOutputs ==
    {Text(k) : k \in TextKinds}
    \cup {ScoreObject("num", v) : v \in RawScores}
    \cup {ScoreObject(t, 0) : t \in ScoreTypes}

-----------------------------------------------------------------------------
(* DiagnosticAgent *)

NoDiagnostic == [sufficient |-> FALSE, recommendation |-> "", confidence |-> 0,
                 origin |-> "none"]

DiagnosticCeiling == [sufficient |-> TRUE, recommendation |-> "score",
                      confidence |-> 100, origin |-> "ceiling"]

DiagnosticFloor == [sufficient |-> FALSE, recommendation |-> "continue",
                    confidence |-> 90, origin |-> "floor"]

\* A variant fallback that recommends scoring with confidence 0.9.
DiagnosticFallbackScoring(n) ==
    [sufficient |-> TRUE, recommendation |-> "score",
     confidence |-> 90, origin |-> "fallback"]

\* The default result after both attempts failed (cctdi_agents.py 408-418).
DiagnosticFallback(n) ==
    [sufficient |-> n >= MaxRounds,
     recommendation |-> IF n >= MaxRounds THEN "score" ELSE "continue",
     confidence |-> 50, origin |-> "fallback"]

\* One pass of the loop body: json.loads, the two item assignments, the
\* required-field check.  "raise" is an exception other than JSONDecodeError.
DiagnosticAttempt(o) ==
    CASE o.kind \in {"nocontent", "list", "scalar"} -> "raise"
      [] o.kind = "object" -> "return"
      [] OTHER -> "retry"

\* A variant policy whose floor takes round 3 too and whose model request
\* is not parsed.
analyze_with_floor_at_three(n, o1, o2) ==
    IF n >= MaxRounds THEN
        [raised |-> FALSE, requests |-> 0, result |-> DiagnosticCeiling]
    ELSE IF n <= MinRounds THEN
        [raised |-> FALSE, requests |-> 0, result |-> DiagnosticFloor]
    ELSE
        [raised |-> FALSE, requests |-> 2, result |-> DiagnosticFallback(n)]

\* analyze_interaction_sufficiency with n = len(interactions) and the texts
\* o1, o2 the model returns to the first and the second attempt.
analyze_interaction_sufficiency(n, o1, o2) ==
    IF n >= MaxRounds THEN
        [raised |-> FALSE, requests |-> 0, result |-> DiagnosticCeiling]
    ELSE IF n < MinRounds THEN
        [raised |-> FALSE, requests |-> 0, result |-> DiagnosticFloor]
    ELSE IF DiagnosticAttempt(o1) = "raise" THEN
        [raised |-> TRUE, requests |-> 1, result |-> NoDiagnostic]
    ELSE IF DiagnosticAttempt(o1) = "return" THEN
        [raised |-> FALSE, requests |-> 1,
         result |-> [sufficient |-> o1.sufficient,
                     recommendation |-> o1.recommendation,
                     confidence |-> o1.confidence, origin |-> "model"]]
    ELSE IF DiagnosticAttempt(o2) = "raise" THEN
        [raised |-> TRUE, requests |-> 2, result |-> NoDiagnostic]
    ELSE IF DiagnosticAttempt(o2) = "return" THEN
        [raised |-> FALSE, requests |-> 2,
         result |-> [sufficient |-> o2.sufficient,
                     recommendation |-> o2.recommendation,
                     confidence |-> o2.confidence, origin |-> "model"]]
    ELSE
        [raised |-> FALSE, requests |-> 2, result |-> DiagnosticFallback(n)]

\* The interaction summary built for the model request reads user_responses[i]
\* for every interaction i: IndexError when there are fewer responses.
SummaryRaises(n, responses) ==
    n \in MinRounds..(MaxRounds - 1) /\ n > responses

\* Every way a diagnostic call with n interactions can end, the model
\* returning texts of the set outputs.
DiagnosticOutcomes(n, outputs) ==
    {analyze_interaction_sufficiency(n, o1, o2) : o1 \in outputs, o2 \in outputs}

-----------------------------------------------------------------------------
(* ScoringAgent *)

NoScore == [score |-> 0, level |-> "", confidence |-> 0, origin |-> "none"]

\* The range check of score_dimension (cctdi_agents.py 585-590).
ClampScore(score) ==
    IF score < MinScore THEN MinScore
    ELSE IF score > MaxScore THEN MaxScore
    ELSE score

\* A variant backup result with the lowest score of the range.
ScoringFallbackLowest ==
    [score |-> MinScore, level |-> "average", confidence |-> 30,
     origin |-> "fallback"]

\* The backup result after both attempts failed (cctdi_agents.py 613-627).
ScoringFallback ==
    [score |-> FallbackScore, level |-> "average", confidence |-> 30,
     origin |-> "fallback"]

\* One pass of the loop body: json.loads, the required-field check and the
\* comparisons score < 10, score > 60.  "raise" is an exception other than
\* JSONDecodeError (a TypeError).
ScoringAttempt(o) ==
    CASE o.kind \in {"nocontent", "scalar"} -> "raise"
      [] o.kind = "object" /\ o.score_type # "num" -> "raise"
      [] o.kind = "object" -> "return"
      [] OTHER -> "retry"

\* score_dimension with the texts o1, o2 the model returns to the first and
\* the second attempt.
score_dimension(o1, o2) ==
    IF ScoringAttempt(o1) = "raise" THEN
        [raised |-> TRUE, result |-> NoScore]
    ELSE IF ScoringAttempt(o1) = "return" THEN
        [raised |-> FALSE,
         result |-> [score |-> ClampScore(o1.score), level |-> "model",
                     confidence |-> 80, origin |-> "model"]]
    ELSE IF ScoringAttempt(o2) = "raise" THEN
        [raised |-> TRUE, result |-> NoScore]
    ELSE IF ScoringAttempt(o2) = "return" THEN
        [raised |-> FALSE,
         result |-> [score |-> ClampScore(o2.score), level |-> "model",
                     confidence |-> 80, origin |-> "model"]]
    ELSE
        [raised |-> FALSE, result |-> ScoringFallback]

\* Every way a scoring call can end, the model returning texts of the set
\* outputs.
ScoringOutcomes(outputs) ==
    {score_dimension(o1, o2) : o1 \in outputs, o2 \in outputs}

-----------------------------------------------------------------------------
(* AdaptiveNavigatorAgent *)

\* The four words select_interaction_mode looks for in the last response
\* (line 211), written in pinyin, and the number of characters of each.
HedgeMarkers == {"bu zhi dao", "bu que ding", "bu hui", "nan"}

MarkerLength(word) ==
    CASE word = "bu zhi dao"  -> 3
      [] word = "bu que ding" -> 3
      [] word = "bu hui"      -> 2
      [] word = "nan"         -> 1

RECURSIVE TotalMarkerLength(_)
TotalMarkerLength(words) ==
    IF words = {} THEN 0
    ELSE LET word == CHOOSE w \in words : TRUE
         IN  MarkerLength(word) + TotalMarkerLength(words \ {word})

\* A response content is represented by what select_interaction_mode reads
\* of it: its number of characters and the hedge markers it holds.  No marker
\* ends with the character another one starts with, so a text holding a set
\* of markers is at least as long as the markers together.
ResponseContents(max_length) ==
    {[length |-> n, markers |-> held] :
        n \in 0..max_length, held \in SUBSET HedgeMarkers}

IsContent(content) == TotalMarkerLength(content.markers) <= content.length

\* word in last_response
Contains(content, word) == word \in content.markers

\* The responses the sessions are driven with: 20 to 100 characters, no
\* hedge marker.
ResponseKinds == {[length |-> 50, markers |-> {}]}

\* select_interaction_mode with the length test made before the marker test.
select_mode_length_first(responses, count) ==
    IF count = 0 THEN "normal"
    ELSE IF Len(responses) > 0 THEN
        LET last_response == responses[Len(responses)] IN
        IF last_response.length < 20 THEN "encourage"
        ELSE IF last_response.length > 100 THEN "probe"
        ELSE IF \E word \in HedgeMarkers : Contains(last_response, word)
             THEN "encourage"
        ELSE "normal"
    ELSE "normal"

select_interaction_mode(responses, count) ==
    IF count = 0 THEN "normal"
    ELSE IF Len(responses) > 0 THEN
        LET last_response == responses[Len(responses)] IN
        IF \/ last_response.length < 20
           \/ \E word \in HedgeMarkers : Contains(last_response, word)
        THEN "encourage"
        ELSE IF last_response.length > 100 THEN "probe"
        ELSE "normal"
    ELSE "normal"

\* generate_question: the interaction it returns, represented by its mode.
generate_question(responses, count) == select_interaction_mode(responses, count)

-----------------------------------------------------------------------------
(* BaseAgent._clean_json_response *)

\* A text is a sequence of characters; "json" stands for the four letters of
\* the tag, "tick" for a backtick, "x" for any other payload character.
CleanAlphabet == {"tick", " ", "\n", "json", "x"}
Whitespace == {" ", "\n"}
Backtick == {"tick"}

\* The number of leading characters of text that are in chars.
LeadCount(text, chars) ==
    CHOOSE k \in 0..Len(text) :
        /\ \A i \in 1..k : text[i] \in chars
        /\ k = Len(text) \/ text[k + 1] \notin chars

\* The number of trailing characters of text that are in chars.
TrailCount(text, chars) ==
    CHOOSE k \in 0..Len(text) :
        /\ \A i \in (Len(text) - k + 1)..Len(text) : text[i] \in chars
        /\ k = Len(text) \/ text[Len(text) - k] \notin chars

\* str.strip(chars)
Strip(text, chars) ==
    IF \A i \in 1..Len(text) : text[i] \in chars THEN <<>>
    ELSE SubSeq(text, LeadCount(text, chars) + 1, Len(text) - TrailCount(text, chars))

Drop(text, n) == SubSeq(text, n + 1, Len(text))

StartsWithFence(text, at) ==
    /\ at + 2 <= Len(text)
    /\ text[at] = "tick" /\ text[at + 1] = "tick" /\ text[at + 2] = "tick"

\* The first re.sub: three backticks at the start, the tag when it follows at
\* once, and the whitespace after them.
RemoveOpeningFence(text) ==
    IF ~StartsWithFence(text, 1) THEN text
    ELSE LET a == Drop(text, 3)
             b == IF Len(a) > 0 /\ a[1] = "json" THEN Drop(a, 1) ELSE a
         IN  Drop(b, LeadCount(b, Whitespace))

\* Whether the closing pattern (an optional newline, three backticks, then
\* whitespace to the end) matches text from position at on.
ClosingFenceAt(text, at) ==
    LET fence == IF text[at] = "\n" /\ StartsWithFence(text, at + 1) THEN at + 1 ELSE at
    IN  /\ StartsWithFence(text, fence)
        /\ \A i \in (fence + 3)..Len(text) : text[i] \in Whitespace

\* The second re.sub: the leftmost match of the closing pattern is removed.
RemoveClosingFence(text) ==
    IF \E at \in 1..Len(text) : ClosingFenceAt(text, at)
    THEN LET at == CHOOSE a \in 1..Len(text) :
                       /\ ClosingFenceAt(text, a)
                       /\ \A b \in 1..(a - 1) : ~ClosingFenceAt(text, b)
         IN  SubSeq(text, 1, at - 1)
    ELSE text

_clean_json_response(response) ==
    IF response = <<>> THEN response
    ELSE Strip(Strip(RemoveClosingFence(RemoveOpeningFence(Strip(response, Whitespace))),
                     Backtick),
               Whitespace)

-----------------------------------------------------------------------------
(* CCTDIAssessmentSystem: helpers *)

\* A variant sum that leaves the last dimension out.
SumScoresWithoutLast(scores, d) ==
    scores[1].score + scores[2].score + scores[3].score
    + scores[4].score + scores[5].score + scores[6].score

RECURSIVE SumScores(_, _)
\* sum(result["score"] for result in dimension_scores.values()), over the
\* dimensions 1..d that hold a result.
SumScores(scores, d) ==
    IF d = 0 THEN 0
    ELSE SumScores(scores, d - 1)
         + (IF scores[d].origin = "none" THEN 0 ELSE scores[d].score)

\* A variant banding whose thresholds are exclusive.
overall_level_exclusive(total) ==
    IF total > 350 THEN "excellent"
    ELSE IF total > 280 THEN "good"
    ELSE IF total > 210 THEN "average"
    ELSE IF total > 140 THEN "poor"
    ELSE "very poor"

\* The overall level of _complete_assessment (cctdi_system.py 400-409).
overall_level(total) ==
    IF total >= 350 THEN "excellent"
    ELSE IF total >= 280 THEN "good"
    ELSE IF total >= 210 THEN "average"
    ELSE IF total >= 140 THEN "poor"
    ELSE "very poor"

HeaderLine == [kind |-> "header", scores |-> <<>>, total |-> 0]

\* The row _save_user_score_summary builds: .get(dim_id, {}).get("score", 0).
RowLine(scores, total) ==
    [kind |-> "row",
     scores |-> [d \in Dimensions |->
                    IF scores[d].origin = "none" THEN 0 ELSE scores[d].score],
     total |-> total]

\* The body of "with _USER_SCORES_LOCK" run by one thread alone: the existence
\* check, the open for append, the header when the file was absent, the row.
AppendUnderLock(file, row) ==
    [exists |-> TRUE,
     lines |-> IF file.exists THEN Append(file.lines, row)
               ELSE file.lines \o <<HeaderLine, row>>]

\* _save_user_score_summary: skipped without user information; an I/O fault
\* (io_ok false) is caught and leaves the file as it was.
_save_user_score_summary(file, user, scores, total, io_ok) ==
    IF ~user THEN file
    ELSE IF ~io_ok THEN file
    ELSE AppendUnderLock(file, RowLine(scores, total))

NoReport == [writes |-> 0, total_score |-> 0, overall_level |-> "",
             dimension_scores |-> [d \in Dimensions |-> NoScore]]

\* A public operation that returned: result is the "status" of the returned
\* dict ("error" for an error dict); responses is len(user_responses) when
\* it decided, dimension the dimension it worked on.
Call(op, result, responses, dimension) ==
    [op |-> op, result |-> result, responses |-> responses,
     dimension |-> dimension, raised_in |-> ""]

\* A public operation left by an exception raised in the agent method where.
Raised(op, where, responses, dimension) ==
    [op |-> op, result |-> "raised", responses |-> responses,
     dimension |-> dimension, raised_in |-> where]

-----------------------------------------------------------------------------
(* CCTDIAssessmentSystem: public operations *)

SessionInit ==
    /\ has_user = TRUE
    /\ llm = [diagnostic |-> DiagOutputs, scoring |-> ScoreOutputs]
    /\ status = "initialized"
    /\ current_dimension = 0
    /\ interactions = <<>>
    /\ user_responses = <<>>
    /\ dimension_scores = [d \in Dimensions |-> NoScore]
    /\ director_dimension = 1
    /\ dimension_info = 0
    /\ interaction_count = 0
    /\ diagnostic_results = <<>>
    /\ report = NoReport
    /\ score_file = [exists |-> FALSE, lines |-> <<>>]
    /\ last_call = Call("__init__", "", 0, 0)
    /\ history = [starts |-> 0, forces |-> 0, in_turn |-> TRUE]

\* start_assessment (cctdi_system.py 179-222), with the director's
\* start_assessment (cctdi_agents.py 98-113).
start_assessment ==
    /\ history.starts < MaxStarts
    /\ director_dimension' = 1
    /\ status' = "running"
    /\ current_dimension' = 1
    /\ dimension_info' = 1
    /\ interactions' = Append(interactions, generate_question(<<>>, 0))
    /\ interaction_count' = 1
    /\ last_call' = Call("start_assessment", "started", Len(user_responses), 1)
    /\ history' = [history EXCEPT !.starts = @ + 1]
    /\ UNCHANGED <<has_user, llm, user_responses, dimension_scores, diagnostic_results,
                   report, score_file>>

\* _complete_assessment (cctdi_system.py 389-441), entered with the scores as
\* they are after the last dimension was stored.
CompleteAssessment(op, scores, responses, diagnostics, io_ok) ==
    LET total == SumScores(scores, NumDimensions) IN
    /\ status' = "completed"
    /\ dimension_scores' = scores
    /\ user_responses' = responses
    /\ diagnostic_results' = diagnostics
    /\ report' = [writes |-> report.writes + 1, total_score |-> total,
                  overall_level |-> overall_level(total),
                  dimension_scores |-> scores]
    /\ score_file' = _save_user_score_summary(score_file, has_user, scores, total, io_ok)
    /\ last_call' = Call(op, "completed", Len(responses), dimension_info)
    /\ UNCHANGED <<has_user, llm, current_dimension, interactions, director_dimension,
                   dimension_info, interaction_count>>

\* An advance that keeps the transcript and the diagnostics of the dimension
\* just scored: what _advance_to_next_dimension would do without lines 345-350.
AdvanceKeepingTranscript(op, scores, responses) ==
    /\ director_dimension' = director_dimension + 1
    /\ current_dimension' = director_dimension + 1
    /\ dimension_info' = director_dimension + 1
    /\ dimension_scores' = scores
    /\ diagnostic_results' = diagnostic_results
    /\ user_responses' = <<>>
    /\ interactions' = <<generate_question(<<>>, 0)>>
    /\ interaction_count' = 1
    /\ last_call' = Call(op, "dimension_completed", Len(responses), dimension_info)
    /\ UNCHANGED <<has_user, llm, status, report, score_file>>

\* _advance_to_next_dimension (cctdi_system.py 332-387), after the director's
\* advance_to_next_dimension moved to the next dimension.
AdvanceToNextDimension(op, scores, responses) ==
    /\ director_dimension' = director_dimension + 1
    /\ current_dimension' = director_dimension + 1
    /\ dimension_info' = director_dimension + 1
    /\ dimension_scores' = scores
    /\ diagnostic_results' = <<>>
    /\ user_responses' = <<>>
    /\ interactions' = <<generate_question(<<>>, 0)>>
    /\ interaction_count' = 1
    /\ last_call' = Call(op, "dimension_completed", Len(responses), dimension_info)
    /\ UNCHANGED <<has_user, llm, status, report, score_file>>

\* An exception leaves process_user_response or force_score_current_dimension:
\* what was recorded before it stays recorded.
Raise(op, where, responses, diagnostics) ==
    /\ user_responses' = responses
    /\ diagnostic_results' = diagnostics
    /\ last_call' = Raised(op, where, Len(responses), dimension_info)
    /\ UNCHANGED <<has_user, llm, status, current_dimension, interactions,
                   dimension_scores, director_dimension, dimension_info,
                   interaction_count, report, score_file>>

\* _score_current_dimension (cctdi_system.py 294-330) with the director's
\* advance_to_next_dimension (cctdi_agents.py 153-176).
ScoreCurrentDimension(op, responses, diagnostics) ==
    \E outcome \in ScoringOutcomes(llm.scoring) :
        IF outcome.raised THEN Raise(op, "score_dimension", responses, diagnostics)
        ELSE LET scores == [dimension_scores EXCEPT ![dimension_info] = outcome.result] IN
             IF director_dimension < NumDimensions
             THEN AdvanceToNextDimension(op, scores, responses)
             ELSE \E io_ok \in BOOLEAN :
                      CompleteAssessment(op, scores, responses, diagnostics, io_ok)

\* The rest of process_user_response when the dimension goes on: the next
\* question (cctdi_system.py 267-292).
NextQuestion(responses, diagnostics) ==
    /\ user_responses' = responses
    /\ diagnostic_results' = diagnostics
    /\ interactions' = Append(interactions, generate_question(responses, interaction_count))
    /\ interaction_count' = interaction_count + 1
    /\ last_call' = Call("process_user_response", "continue", Len(responses), dimension_info)
    /\ UNCHANGED <<has_user, llm, status, current_dimension, dimension_scores,
                   director_dimension, dimension_info, report, score_file>>

\* process_user_response (cctdi_system.py 224-292).
process_user_response ==
    /\ Len(user_responses) < MaxResponses
    /\ \E content \in ResponseKinds :
        LET op == "process_user_response"
            responses == Append(user_responses, content)
        IN
        IF status # "running" THEN
            /\ last_call' = Call(op, "error", Len(user_responses), dimension_info)
            /\ history' = history
            /\ UNCHANGED <<has_user, llm, status, current_dimension, interactions,
                           user_responses, dimension_scores, director_dimension,
                           dimension_info, interaction_count, diagnostic_results,
                           report, score_file>>
        ELSE
            /\ history' = [history EXCEPT
                              !.in_turn = @ /\ Len(interactions) > Len(user_responses)]
            /\ IF Len(responses) >= MinRounds THEN
                   \E diag \in DiagnosticOutcomes(Len(interactions), llm.diagnostic) :
                       IF diag.raised \/ SummaryRaises(Len(interactions), Len(responses))
                       THEN Raise(op, "analyze_interaction_sufficiency", responses,
                                  diagnostic_results)
                       ELSE LET diagnostics == Append(diagnostic_results, diag.result) IN
                            IF diag.result.sufficient /\ diag.result.recommendation = "score"
                            THEN ScoreCurrentDimension(op, responses, diagnostics)
                            ELSE NextQuestion(responses, diagnostics)
               ELSE NextQuestion(responses, diagnostic_results)

\* force_score_current_dimension (cctdi_system.py 524-537).
force_score_current_dimension ==
    /\ history.forces < MaxForce
    /\ history' = [history EXCEPT !.forces = @ + 1]
    /\ IF Len(user_responses) = 0 THEN
           /\ last_call' = Call("force_score_current_dimension", "error", 0, dimension_info)
           /\ UNCHANGED <<has_user, llm, status, current_dimension, interactions,
                          user_responses, dimension_scores, director_dimension,
                          dimension_info, interaction_count, diagnostic_results,
                          report, score_file>>
       ELSE ScoreCurrentDimension("force_score_current_dimension",
                                  user_responses, diagnostic_results)

-----------------------------------------------------------------------------
(* SimulationRunner.run: the driver of one session *)

\* auto_simu_concurrent.py 249: the runner starts the assessment once.
RunnerStart ==
    /\ status = "initialized"
    /\ start_assessment

\* auto_simu_concurrent.py 267-291: while the status is running the runner
\* answers the pending question; it returns at the first exception (378-387).
RunnerRespond ==
    /\ status = "running"
    /\ last_call.result # "raised"
    /\ process_user_response

IdleSession ==
    /\ has_user = FALSE
    /\ llm = [diagnostic |-> {}, scoring |-> {}]
    /\ status = "initialized"
    /\ current_dimension = 0
    /\ interactions = <<>>
    /\ user_responses = <<>>
    /\ dimension_scores = [d \in Dimensions |-> NoScore]
    /\ director_dimension = 1
    /\ dimension_info = 0
    /\ interaction_count = 0
    /\ diagnostic_results = <<>>
    /\ report = NoReport
    /\ score_file = [exists |-> FALSE, lines |-> <<>>]
    /\ last_call = Call("__init__", "", 0, 0)
    /\ history = [starts |-> 0, forces |-> 0, in_turn |-> TRUE]

IdleBand == band_total = 0 /\ band_level = ""

IdleClean == clean_input = <<>> /\ clean_once = <<>> /\ clean_twice = <<>>

IdleBatch ==
    /\ max_workers = 0 /\ fate = <<>> /\ pc = <<>> /\ round_num = <<>>
    /\ future = <<>> /\ lock_holder = 0 /\ file_exists = <<>> /\ written = <<>>
    /\ ledger = [exists |-> FALSE, lines |-> <<>>]
    /\ collected = {} /\ results = <<>>
    /\ counts = [completed |-> 0, success |-> 0, failed |-> 0]
    /\ main_pc = "idle"

IdleCall ==
    /\ call_request = "" /\ max_retries = 0 /\ attempt = 0 /\ invocations = <<>>
    /\ waits = <<>> /\ last_error = "None" /\ call_returned = <<>> /\ call_pc = "idle"

IdleAgent ==
    /\ agent_request = "" /\ agent_round = 0 /\ agent_texts = <<>> /\ agent_out = <<>>

IdleMode ==
    /\ mode_count = 0 /\ mode_response = <<>> /\ mode_out = ""

IdleTwin ==
    /\ twin_round = 0 /\ twin_modes = <<>> /\ twin_replies = <<>> /\ twin_out = <<>>

IdleConsole ==
    /\ console_pc = <<>> /\ console_source = <<>>
    /\ console_lock = 0 /\ console_count = <<>>

NoInterrupt == [arrived |-> FALSE, in_flight |-> {}]

IdlePersona == persona_names = <<>> /\ persona_files = <<>> /\ user_info = <<>>

IdleExtra == IdleConsole /\ interrupt = NoInterrupt /\ calls = 0 /\ IdlePersona

IdleFunctions == IdleCall /\ IdleAgent /\ IdleMode /\ IdleTwin /\ IdleExtra

Init == SessionInit /\ IdleBand /\ IdleClean /\ IdleBatch /\ IdleFunctions

Next ==
    \/ RunnerStart /\ UNCHANGED <<bandVars, cleanVars, batchVars, functionVars>>
    \/ RunnerRespond /\ UNCHANGED <<bandVars, cleanVars, batchVars, functionVars>>

\* One session driven as SimulationRunner.run drives it.
Spec == Init /\ [][Next]_vars

\* A session of the command-line interface or of a test: with or without user
\* information.  The model answers the diagnostic request with "score" or
\* with a JSON scalar, the scoring request with a score above the range or
\* with a non-numeric score.
ApiInit ==
    /\ has_user \in BOOLEAN
    /\ llm = [diagnostic |-> {DiagObject(TRUE, "score", 80), Text("scalar")},
              scoring |-> {ScoreObject("num", 75), ScoreObject("str", 0)}]
    /\ status = "initialized"
    /\ current_dimension = 0
    /\ interactions = <<>>
    /\ user_responses = <<>>
    /\ dimension_scores = [d \in Dimensions |-> NoScore]
    /\ director_dimension = 1
    /\ dimension_info = 0
    /\ interaction_count = 0
    /\ diagnostic_results = <<>>
    /\ report = NoReport
    /\ score_file = [exists |-> FALSE, lines |-> <<>>]
    /\ last_call = Call("__init__", "", 0, 0)
    /\ history = [starts |-> 0, forces |-> 0, in_turn |-> TRUE]
    /\ IdleBand /\ IdleClean /\ IdleBatch /\ IdleFunctions

ApiNext ==
    \/ start_assessment /\ UNCHANGED <<bandVars, cleanVars, batchVars, functionVars>>
    \/ process_user_response /\ UNCHANGED <<bandVars, cleanVars, batchVars, functionVars>>
    \/ force_score_current_dimension /\ UNCHANGED <<bandVars, cleanVars, batchVars, functionVars>>

\* One session under any sequence of its public operations.
ApiSpec == ApiInit /\ [][ApiNext]_vars

-----------------------------------------------------------------------------
(* The overall-level banding as a function of the total *)

MinTotal == NumDimensions * MinScore
MaxTotal == NumDimensions * MaxScore

BandInit ==
    /\ band_total \in MinTotal..MaxTotal
    /\ band_level = ""
    /\ IdleSession /\ IdleClean /\ IdleBatch /\ IdleFunctions

\* The if/elif chain of _complete_assessment applied to band_total.
Band ==
    /\ band_level = ""
    /\ band_level' = overall_level(band_total)
    /\ UNCHANGED <<band_total, sessionVars, cleanVars, batchVars, functionVars>>

BandNext == Band

BandSpec == BandInit /\ [][BandNext]_vars

-----------------------------------------------------------------------------
(* Properties of one session *)

Scored(result) == result \in {"dimension_completed", "completed"}

Stored(d) == dimension_scores[d].origin # "none"

\* C1: every dimension of a session driven by start_assessment and
\* process_user_response, one response per question, is scored on its r-th
\* response with 3 <= r <= 5: never on response 1 or 2, and always on
\* response 5.
C1_ScoredBetweenThreeAndFive ==
    /\ Scored(last_call.result) => last_call.responses \in MinRounds..MaxRounds
    /\ (last_call.op = "process_user_response" /\ last_call.responses = MaxRounds)
           => Scored(last_call.result)

\* The part of C1 that bounds the round count: a dimension is scored on
\* response 3, 4 or 5 only, and no sixth question is ever asked.
RoundsBounded ==
    /\ Scored(last_call.result) => last_call.responses \in MinRounds..MaxRounds
    /\ last_call.result = "continue" => last_call.responses < MaxRounds
    /\ Len(user_responses) <= MaxRounds

\* C2: every stored ScoringResult has a score in [10,60], and no text the
\* model returns to the scoring request makes score_dimension fail.
C2_ScoreInRangeAndNoFailure ==
    /\ \A d \in Dimensions :
           Stored(d) => dimension_scores[d].score \in MinScore..MaxScore
    /\ last_call.raised_in # "score_dimension"

\* The part of C2 that holds: what is stored is in [10,60].
StoredScoresInRange ==
    \A d \in Dimensions : Stored(d) => dimension_scores[d].score \in MinScore..MaxScore

SevenScores(f) == f[1] + f[2] + f[3] + f[4] + f[5] + f[6] + f[7]

\* C3: at status completed dimension_scores holds a result for each of the
\* dimensions 1..7, the report's total_score is the sum of the 7 scores and
\* lies in [70,420], and the ledger row of the session carries the same 7
\* scores and their sum as total.
C3_TotalIsSumOfSevenScores ==
    status = "completed" =>
        /\ \A d \in Dimensions : Stored(d)
        /\ report.total_score = SevenScores([d \in Dimensions |-> dimension_scores[d].score])
        /\ report.total_score \in 70..420
        /\ \A i \in 1..Len(score_file.lines) :
               score_file.lines[i].kind = "row" =>
                   /\ \A d \in Dimensions :
                          score_file.lines[i].scores[d] = dimension_scores[d].score
                   /\ score_file.lines[i].total = SevenScores(score_file.lines[i].scores)

C3_Witness ==
    /\ status = "completed"
    /\ Len(score_file.lines) = 2
    /\ score_file.lines[2].kind = "row"
    /\ score_file.lines[2].total = 10 + 60 + 43 + 60 + 10 + 43 + 60
    /\ dimension_scores[3] = ScoringFallback

\* C4: the overall level of every total in [70,420]: excellent from 350, good
\* for 280..349, average for 210..279, poor for 140..209, very poor up to 139.
C4_BandingExact ==
    band_level # "" =>
        /\ band_total \in 350..420 <=> band_level = "excellent"
        /\ band_total \in 280..349 <=> band_level = "good"
        /\ band_total \in 210..279 <=> band_level = "average"
        /\ band_total \in 140..209 <=> band_level = "poor"
        /\ band_total \in 70..139 <=> band_level = "very poor"

C4_Witness ==
    /\ band_total = 349
    /\ band_level = "good"

\* C8 as stated: the diagnostic fallback at round 3 yields recommendation
\* continue with confidence 0.9.
C8_FallbackConfidencePointNine ==
    (Len(diagnostic_results) >= 1 /\ diagnostic_results[1].origin = "fallback") =>
        /\ diagnostic_results[1].recommendation = "continue"
        /\ diagnostic_results[1].confidence = 90

\* C8 amended: the diagnostic fallback at round 3, after two structural-parse
\* failures, yields sufficient false, recommendation continue and confidence
\* 0.5, and the dimension goes on with a next question.
C8_FallbackContinuesPointFive ==
    /\ (Len(diagnostic_results) >= 1 /\ diagnostic_results[1].origin = "fallback") =>
           /\ diagnostic_results[1].sufficient = FALSE
           /\ diagnostic_results[1].recommendation = "continue"
           /\ diagnostic_results[1].confidence = 50
    /\ (/\ last_call.op = "process_user_response"
        /\ last_call.responses = MinRounds
        /\ last_call.result # "raised"
        /\ Len(diagnostic_results) = 1
        /\ diagnostic_results[1].origin = "fallback")
           => last_call.result = "continue"

C8_Witness ==
    /\ Len(user_responses) = MinRounds
    /\ Len(diagnostic_results) = 1
    /\ diagnostic_results[1].origin = "fallback"
    /\ last_call.result = "continue"

-----------------------------------------------------------------------------
(* _clean_json_response applied once and again *)

NotCleaned == <<"not cleaned">>

Texts == UNION {[1..n -> CleanAlphabet] : n \in 0..MaxTextLen}

CleanInit ==
    /\ clean_input \in Texts
    /\ clean_once = NotCleaned
    /\ clean_twice = NotCleaned
    /\ IdleSession /\ IdleBand /\ IdleBatch /\ IdleFunctions

CleanOnce ==
    /\ clean_once = NotCleaned
    /\ clean_once' = _clean_json_response(clean_input)
    /\ UNCHANGED <<clean_input, clean_twice, sessionVars, bandVars, batchVars, functionVars>>

CleanTwice ==
    /\ clean_once # NotCleaned
    /\ clean_twice = NotCleaned
    /\ clean_twice' = _clean_json_response(clean_once)
    /\ UNCHANGED <<clean_input, clean_once, sessionVars, bandVars, batchVars, functionVars>>

CleanNext == CleanOnce \/ CleanTwice

CleanSpec == CleanInit /\ [][CleanNext]_vars

\* C9: _clean_json_response is idempotent: cleaning a cleaned text changes
\* nothing.
C9_CleanIdempotent ==
    clean_twice # NotCleaned => clean_twice = clean_once

\* What one cleaning does guarantee: no whitespace is left at either end.
CleanedHasNoOuterWhitespace ==
    (clean_once # NotCleaned /\ Len(clean_once) > 0) =>
        /\ clean_once[1] \notin Whitespace
        /\ clean_once[Len(clean_once)] \notin Whitespace

-----------------------------------------------------------------------------
(* Stored scoring results *)

\* C10: once a dimension has a stored ScoringResult, no call replaces it,
\* re-enters the dimension or scores it again, whatever mix of
\* start_assessment, process_user_response and force_score_current_dimension
\* is called.
C10_StoredResultIsFinal ==
    [][\A d \in Dimensions :
          Stored(d) =>
              /\ dimension_scores'[d] = dimension_scores[d]
              /\ ~(status' = "running" /\ dimension_info' = d)
              /\ ~(Scored(last_call'.result) /\ last_call'.dimension = d)]_vars

\* Under the runner's discipline (one start, responses while running) the
\* same statement holds.
StoredResultIsFinalForRunner ==
    [][\A d \in Dimensions :
          Stored(d) =>
              /\ dimension_scores'[d] = dimension_scores[d]
              /\ ~(status' = "running" /\ dimension_info' = d)]_vars

-----------------------------------------------------------------------------
(* ConcurrentBatchSimulationRunner: the pool, the tasks, the shared ledger *)

Users == 1..NumUsers

\* What the session of a persona file does: it completes, an exception is
\* raised in its round loop, an exception is raised while the runner is
\* constructed or the assessment started, or _load_persona calls sys.exit.
Fates == {"completes", "raises_in_loop", "raises_in_setup", "exits"}

\* "except Exception" catches Exception, not SystemExit.
Catches(exception) == exception = "Exception"

\* _run_single_user: an exception it catches becomes a failed result dict,
\* any other is left to the pool, which stores it in the future.
RunSingleUserOutcome(exception) ==
    IF Catches(exception) THEN "failed" ELSE exception

\* A variant round loop without handlers, under a _run_single_user without one.
RoundLoopEscapes(exception) == exception

\* The handlers of the round loop of SimulationRunner.run: a caught exception
\* becomes a failed result dict, any other goes on to _run_single_user.
RoundLoopOutcome(exception) ==
    IF Catches(exception) THEN "failed" ELSE RunSingleUserOutcome(exception)

\* _load_persona: sys.exit(1) raises SystemExit in the worker thread.
_load_persona(readable) == IF readable THEN "loaded" ELSE "SystemExit"

\* Fates of a session whose append to the ledger meets an I/O fault: open
\* raises OSError, or the flush at the end of "with open" does.
LedgerFaults == {"open_fails", "flush_fails"}

\* The sessions that reach _save_user_score_summary.
Completing == {"completes"} \cup LedgerFaults

\* A variant _save_user_score_summary without its handler: the fault goes on
\* to the handlers of the round loop.
LedgerFaultEscapes(exception) == RoundLoopOutcome(exception)

\* The handler of _save_user_score_summary (cctdi_system.py 510-511): a
\* caught fault is printed, _complete_assessment returns the final report and
\* run returns the successful result dict.
LedgerFaultOutcome(exception) ==
    IF Catches(exception) THEN "success" ELSE RoundLoopOutcome(exception)

\* A variant in which thread t leaves the block without releasing the lock.
LockKept(t) == t

\* Leaving "with _USER_SCORES_LOCK", by its end or by an exception, releases
\* the lock thread t holds.
LockReleased(t) == 0

\* A variant without mutual exclusion: the block is entered at once.
LockIgnored(holder) == TRUE

\* Entering "with _USER_SCORES_LOCK" waits until no thread holds the lock.
LockIsFree(holder) == holder = 0

UserRow(t) == [kind |-> "row", user |-> t]
UserHeader == [kind |-> "header", user |-> 0]

Running ==
    {t \in Users : pc[t] \in {"running", "calling", "waiting", "locked", "checked", "written"}}
Done(t) == pc[t] = "done"

\* A variant pool that starts a thread for every submitted task.
WorkerAlwaysIdle(running, workers) == TRUE

\* ThreadPoolExecutor: a queued task is taken when fewer than max_workers
\* threads are running one.
WorkerIsIdle(running, workers) == Cardinality(running) < workers

BatchInit ==
    /\ max_workers \in 1..MaxWorkers
    /\ fate \in [Users -> Fates]
    /\ pc = [t \in Users |-> "queued"]
    /\ round_num = [t \in Users |-> 0]
    /\ future = [t \in Users |-> "pending"]
    /\ lock_holder = 0
    /\ file_exists = [t \in Users |-> FALSE]
    /\ written = [t \in Users |-> <<>>]
    /\ ledger = [exists |-> FALSE, lines |-> <<>>]
    /\ collected = {}
    /\ results = <<>>
    /\ counts = [completed |-> 0, success |-> 0, failed |-> 0]
    /\ main_pc = "collecting"
    /\ IdleSession /\ IdleBand /\ IdleClean /\ IdleFunctions

\* A worker thread takes the oldest queued task and runs _run_single_user up
\* to the round loop: SimulationRunner(...) and start_assessment.
StartTask(t) ==
    /\ pc[t] = "queued"
    /\ WorkerIsIdle(Running, max_workers)
    /\ \A u \in Users : u < t => pc[u] # "queued"
    /\ IF _load_persona(fate[t] # "exits") = "SystemExit"
       THEN /\ pc' = [pc EXCEPT ![t] = "done"]
            /\ future' = [future EXCEPT ![t] = RunSingleUserOutcome("SystemExit")]
       ELSE IF fate[t] = "raises_in_setup"
       THEN /\ pc' = [pc EXCEPT ![t] = "done"]
            /\ future' = [future EXCEPT ![t] = RunSingleUserOutcome("Exception")]
       ELSE /\ pc' = [pc EXCEPT ![t] = "running"]
            /\ UNCHANGED future
    /\ UNCHANGED <<max_workers, fate, round_num, lock_holder, file_exists, written,
                   ledger, collected, results, counts, main_pc>>

\* One pass of the round loop: an answer and process_user_response.  The
\* last round of a completing session reaches _save_user_score_summary.
Round(t) ==
    /\ pc[t] = "running"
    /\ \/ /\ fate[t] = "raises_in_loop"
          /\ pc' = [pc EXCEPT ![t] = "done"]
          /\ future' = [future EXCEPT ![t] = RoundLoopOutcome("Exception")]
          /\ UNCHANGED round_num
       \/ /\ round_num[t] + 1 < SessionRounds
          /\ round_num' = [round_num EXCEPT ![t] = @ + 1]
          /\ UNCHANGED <<pc, future>>
       \/ /\ fate[t] \in Completing
          /\ round_num[t] + 1 = SessionRounds
          /\ round_num' = [round_num EXCEPT ![t] = @ + 1]
          /\ pc' = [pc EXCEPT ![t] = "waiting"]
          /\ UNCHANGED future
    /\ UNCHANGED <<max_workers, fate, lock_holder, file_exists, written, ledger,
                   collected, results, counts, main_pc>>

\* with _USER_SCORES_LOCK:
AcquireLock(t) ==
    /\ pc[t] = "waiting"
    /\ LockIsFree(lock_holder)
    /\ lock_holder' = t
    /\ pc' = [pc EXCEPT ![t] = "locked"]
    /\ UNCHANGED <<max_workers, fate, round_num, future, file_exists, written, ledger,
                   collected, results, counts, main_pc>>

\* file_exists = os.path.exists(score_file)
CheckExists(t) ==
    /\ pc[t] = "locked"
    /\ file_exists' = [file_exists EXCEPT ![t] = ledger.exists]
    /\ pc' = [pc EXCEPT ![t] = "checked"]
    /\ UNCHANGED <<max_workers, fate, round_num, future, lock_holder, written, ledger,
                   collected, results, counts, main_pc>>

\* open(score_file, 'a') creates the file; writeheader when it was absent and
\* writerow go to the buffer of the file object.
\* When open raises, both with blocks are left at once: the lock is
\* released and the handler of _save_user_score_summary takes the fault.
WriteRow(t) ==
    /\ pc[t] = "checked"
    /\ IF fate[t] = "open_fails"
       THEN /\ lock_holder' = LockReleased(t)
            /\ pc' = [pc EXCEPT ![t] = "done"]
            /\ future' = [future EXCEPT ![t] = LedgerFaultOutcome("Exception")]
            /\ UNCHANGED <<ledger, written>>
       ELSE /\ ledger' = [ledger EXCEPT !.exists = TRUE]
            /\ written' = [written EXCEPT ![t] = IF file_exists[t] THEN <<UserRow(t)>>
                                                 ELSE <<UserHeader, UserRow(t)>>]
            /\ pc' = [pc EXCEPT ![t] = "written"]
            /\ UNCHANGED <<future, lock_holder>>
    /\ UNCHANGED <<max_workers, fate, round_num, file_exists,
                   collected, results, counts, main_pc>>

\* Leaving "with open" flushes the buffer to the end of the file; leaving
\* "with _USER_SCORES_LOCK" releases the lock; process_user_response returns
\* completed and run returns the successful result dict.
\* When the flush raises, any part of the buffer short of the whole may have
\* reached the file; the lock is released all the same and the handler of
\* _save_user_score_summary takes the fault.
CloseAndRelease(t) ==
    /\ pc[t] = "written"
    /\ IF fate[t] = "flush_fails"
       THEN /\ \E k \in 0..(Len(written[t]) - 1) :
                   ledger' = [ledger EXCEPT !.lines = @ \o SubSeq(written[t], 1, k)]
            /\ future' = [future EXCEPT ![t] = LedgerFaultOutcome("Exception")]
       ELSE /\ ledger' = [ledger EXCEPT !.lines = @ \o written[t]]
            /\ future' = [future EXCEPT ![t] = "success"]
    /\ lock_holder' = LockReleased(t)
    /\ pc' = [pc EXCEPT ![t] = "done"]
    /\ UNCHANGED <<max_workers, fate, round_num, file_exists, written,
                   collected, results, counts, main_pc>>

\* One pass of "for future in as_completed(future_to_file)": future.result()
\* returns the result dict or raises the stored exception.  An exception that
\* "except Exception" does not catch leaves the loop and the with block.
Collect(t) ==
    /\ main_pc = "collecting"
    /\ Done(t)
    /\ t \notin collected
    /\ collected' = collected \cup {t}
    /\ IF future[t] \in {"success", "failed"}
       THEN /\ results' = Append(results, [user |-> t, success |-> future[t] = "success"])
            /\ counts' = [completed |-> counts.completed + 1,
                          success |-> counts.success + (IF future[t] = "success" THEN 1 ELSE 0),
                          failed |-> counts.failed + (IF future[t] = "success" THEN 0 ELSE 1)]
            /\ UNCHANGED main_pc
       ELSE IF Catches(future[t])
       THEN /\ counts' = [counts EXCEPT !.completed = @ + 1, !.failed = @ + 1]
            /\ UNCHANGED <<results, main_pc>>
       ELSE /\ main_pc' = "leaving"
            /\ UNCHANGED <<results, counts>>
    /\ UNCHANGED <<max_workers, fate, pc, round_num, future, lock_holder, file_exists,
                   written, ledger>>

\* The loop ends after the last future; the with block ends and
\* _print_summary is called.
PrintSummary ==
    /\ main_pc = "collecting"
    /\ collected = Users
    /\ main_pc' = "summary"
    /\ UNCHANGED <<max_workers, fate, pc, round_num, future, lock_holder, file_exists,
                   written, ledger, collected, results, counts>>

\* An exception leaving the with block: the executor's shutdown waits for
\* every submitted task, then the exception leaves run without a summary.
LeaveRun ==
    /\ main_pc = "leaving"
    /\ \A t \in Users : Done(t)
    /\ main_pc' = "left"
    /\ UNCHANGED <<max_workers, fate, pc, round_num, future, lock_holder, file_exists,
                   written, ledger, collected, results, counts>>

BatchNext ==
    \/ \E t \in Users :
          \/ StartTask(t)
          \/ Round(t)
          \/ AcquireLock(t)
          \/ CheckExists(t)
          \/ WriteRow(t)
          \/ CloseAndRelease(t)
          \/ Collect(t)
    \/ PrintSummary
    \/ LeaveRun

BatchStep == BatchNext /\ UNCHANGED <<sessionVars, bandVars, cleanVars, functionVars>>

BatchSpec == BatchInit /\ [][BatchStep]_vars

RunEnded == main_pc \in {"summary", "left"}

\* C5: starting from an absent ledger, whatever the interleaving and the
\* number of workers, the ledger is one header followed by one row per
\* completed session, no row twice, and at most one task at a time is between
\* its existence check and the end of its append.
C5_LedgerOneHeaderKRows ==
    /\ Len(ledger.lines) > 0 =>
          /\ ledger.lines[1] = UserHeader
          /\ \A i \in 2..Len(ledger.lines) : ledger.lines[i].kind = "row"
    /\ \A i, j \in 1..Len(ledger.lines) :
          ledger.lines[i] = ledger.lines[j] => i = j
    /\ \A t, u \in Users :
          (pc[t] \in {"locked", "checked", "written"} /\
           pc[u] \in {"locked", "checked", "written"}) => t = u
    /\ \A t \in Users : pc[t] = "written" => (file_exists[t] <=> Len(ledger.lines) > 0)
    /\ \A t \in Users :
          (Done(t) /\ future[t] = "success") <=>
              \E i \in 1..Len(ledger.lines) : ledger.lines[i] = UserRow(t)
    /\ RunEnded =>
          Len(ledger.lines) =
              (IF \E t \in Users : fate[t] = "completes" THEN 1 ELSE 0)
              + Cardinality({t \in Users : fate[t] = "completes"})

\* K = NumUsers sessions completed on more than one worker, the rows not in
\* submission order.
C5_Witness ==
    /\ main_pc = "summary"
    /\ max_workers > 1
    /\ \A t \in Users : fate[t] = "completes"
    /\ Len(ledger.lines) = NumUsers + 1
    /\ ledger.lines[2] # UserRow(1)

\* C6: when a batch run ends, results holds exactly one record per submitted
\* identity and success_count + failed_count is their number, whatever each
\* session did.
C6_OneResultPerIdentity ==
    RunEnded =>
        /\ Len(results) = NumUsers
        /\ \A t \in Users : Cardinality({i \in 1..Len(results) : results[i].user = t}) = 1
        /\ counts.success + counts.failed = NumUsers

\* When no persona file is unreadable the run ends with its summary and one
\* record per identity.
OneResultPerIdentityWhenLoaded ==
    (RunEnded /\ \A t \in Users : fate[t] # "exits") =>
        /\ main_pc = "summary"
        /\ Len(results) = NumUsers
        /\ \A t \in Users : Cardinality({i \in 1..Len(results) : results[i].user = t}) = 1
        /\ counts.success + counts.failed = NumUsers
        /\ counts.completed = NumUsers

\* C7: a session whose round loop raises yields exactly one failed result;
\* every sibling that completes is reported successful and has its ledger
\* row when the run ends; the failure aborts neither the pool nor the
\* collection of the results.
C7_LoopFailureIsolated ==
    /\ \A t \in Users :
          (fate[t] = "raises_in_loop" /\ Done(t)) => future[t] = "failed"
    /\ \A t \in Users :
          Cardinality({i \in 1..Len(results) : results[i].user = t}) <= 1
    /\ main_pc \in {"leaving", "left"} => \E t \in Users : fate[t] = "exits"
    /\ RunEnded =>
          \A s \in Users :
              fate[s] = "completes" =>
                  /\ Done(s) /\ future[s] = "success"
                  /\ \E i \in 1..Len(ledger.lines) : ledger.lines[i] = UserRow(s)
    /\ (RunEnded /\ \A t \in Users : fate[t] # "exits") =>
          \A t \in Users :
              /\ fate[t] = "raises_in_loop" =>
                    \E i \in 1..Len(results) : results[i] = [user |-> t, success |-> FALSE]
              /\ fate[t] = "completes" =>
                    \E i \in 1..Len(results) : results[i] = [user |-> t, success |-> TRUE]

\* The first session raised after 2 completed rounds on a pool of more than
\* one worker; its siblings completed, were collected after it and are in
\* the ledger.
C7_Witness ==
    /\ main_pc = "summary"
    /\ max_workers > 1
    /\ fate[1] = "raises_in_loop" /\ round_num[1] = 2
    /\ results[1] = [user |-> 1, success |-> FALSE]
    /\ \A s \in Users \ {1} :
          /\ fate[s] = "completes"
          /\ \E i \in 1..Len(results) : results[i] = [user |-> s, success |-> TRUE]
          /\ \E i \in 1..Len(ledger.lines) : ledger.lines[i] = UserRow(s)

-----------------------------------------------------------------------------
(* The ledger row and the final report of one session *)

LedgerRows == {i \in 1..Len(score_file.lines) : score_file.lines[i].kind = "row"}

\* C11: for a session with an identity, after any sequence of
\* start_assessment, process_user_response and force_score_current_dimension
\* calls the ledger holds at most one row of the session, one once it is
\* completed and the append did not fail, and the final report is written once.
C11_OneLedgerRowPerSession ==
    has_user =>
        /\ Cardinality(LedgerRows) <= 1
        /\ report.writes <= 1
        /\ Cardinality(LedgerRows) = 1 => status = "completed"

\* Under the runner's discipline the session contributes at most one row and
\* one report.
OneLedgerRowForRunner ==
    /\ Cardinality(LedgerRows) <= 1
    /\ report.writes <= 1
    /\ Cardinality(LedgerRows) = 1 => status = "completed"

-----------------------------------------------------------------------------
(* The order of the dimensions *)

\* One step keeps the order: a ScoringResult is produced for dimension k only
\* when exactly the dimensions before k hold one; the index of the current
\* dimension moves only from k to k + 1, in the call that scored k; it is in
\* 1..7 from the start of the assessment on.
ScoredInOrderStep ==
    /\ (Scored(last_call'.result) /\ last_call' # last_call) =>
          \A e \in Dimensions : Stored(e) <=> e < last_call'.dimension
    /\ (dimension_info # 0 /\ dimension_info' # dimension_info) =>
          /\ dimension_info' = dimension_info + 1
          /\ last_call'.result = "dimension_completed"
          /\ last_call'.dimension = dimension_info
    /\ status' # "initialized" =>
          /\ dimension_info' \in Dimensions
          /\ director_dimension' = dimension_info'
          /\ current_dimension' = dimension_info'

\* C12: the dimensions of a session are scored strictly in the order 1..7:
\* the k-th ScoringResult is for dimension k, the current dimension index
\* changes only by +1 and only when the current dimension is scored, and it
\* never leaves 1..7.
C12_DimensionsScoredInOrder == [][ScoredInOrderStep]_vars

-----------------------------------------------------------------------------
(* BaseAgent._call_llm *)

\* The callers of _call_llm and a direct call with any max_retries.
Requests == {"question", "guidance", "diagnostic", "scoring", "direct"}

\* The max_retries of each caller: generate_question and
\* generate_dimension_guidance leave the default, the diagnostic and the
\* scoring request pass 2.
RetriesOf(request) ==
    CASE request \in {"question", "guidance"} -> {DefaultMaxRetries}
      [] request \in {"diagnostic", "scoring"} -> {StructuredMaxRetries}
      [] OTHER -> 0..MaxRetries

\* What one chat.completions.create does: a response with text content, a
\* response whose content is None, or an exception of some class.
ErrorClasses == {"APITimeoutError", "RateLimitError"}
TransportOutcomes == {"text", "no content"} \cup ErrorClasses

\* A variant backoff that grows by one second.
LinearWait(i) == i + 1

\* wait_time = (2 ** attempt) * 1
BackoffWait(i) == 2 ^ i

NotReturned == [kind |-> "not returned", error |-> "None"]

CallInit ==
    /\ call_request \in Requests
    /\ max_retries \in RetriesOf(call_request)
    /\ attempt = 0
    /\ invocations = <<>>
    /\ waits = <<>>
    /\ last_error = "None"
    /\ call_returned = NotReturned
    /\ call_pc = "loop"
    /\ IdleSession /\ IdleBand /\ IdleClean /\ IdleBatch
    /\ IdleAgent /\ IdleMode /\ IdleTwin /\ IdleExtra

\* One pass of "for attempt in range(max_retries)" up to the return or the
\* except clause.
Invoke ==
    /\ call_pc = "loop"
    /\ attempt < max_retries
    /\ \E o \in TransportOutcomes :
          /\ invocations' = Append(invocations, o)
          /\ IF o = "text"
             THEN /\ call_returned' = [kind |-> "text", error |-> "None"]
                  /\ call_pc' = "done"
                  /\ UNCHANGED <<attempt, last_error>>
             ELSE IF o = "no content"
             THEN /\ call_returned' = [kind |-> "None", error |-> "None"]
                  /\ call_pc' = "done"
                  /\ UNCHANGED <<attempt, last_error>>
             ELSE /\ last_error' = o
                  /\ IF attempt < max_retries - 1
                     THEN call_pc' = "sleep" /\ UNCHANGED attempt
                     ELSE call_pc' = "loop" /\ attempt' = attempt + 1
                  /\ UNCHANGED call_returned
    /\ UNCHANGED <<call_request, max_retries, waits>>

\* time.sleep(wait_time), then the next pass.
Sleep ==
    /\ call_pc = "sleep"
    /\ waits' = Append(waits, BackoffWait(attempt))
    /\ attempt' = attempt + 1
    /\ call_pc' = "loop"
    /\ UNCHANGED <<call_request, max_retries, invocations, last_error, call_returned>>

\* After the loop: the failure string with str(last_error).
ReturnSentinel ==
    /\ call_pc = "loop"
    /\ attempt >= max_retries
    /\ call_returned' = [kind |-> "sentinel", error |-> last_error]
    /\ call_pc' = "done"
    /\ UNCHANGED <<call_request, max_retries, attempt, invocations, waits, last_error>>

CallNext ==
    (Invoke \/ Sleep \/ ReturnSentinel)
    /\ UNCHANGED <<sessionVars, bandVars, cleanVars, batchVars, agentVars, modeVars, twinVars,
                   extraVars>>

CallSpec == CallInit /\ [][CallNext]_vars

Failed(i) == invocations[i] \in ErrorClasses

\* C13: _call_llm never raises and always returns a text string: the model's
\* text when an attempt succeeds, otherwise the failure string with the last
\* error, for every max_retries >= 0 and every transport outcome.
C13_CallReturnsText ==
    call_pc = "done" =>
        \/ /\ call_returned.kind = "text"
           /\ Len(invocations) > 0 /\ ~Failed(Len(invocations))
        \/ /\ call_returned.kind = "sentinel"
           /\ \A i \in 1..Len(invocations) : Failed(i)
           /\ call_returned.error = last_error

\* C14: with max_retries = m the transport is invoked at most m times and not
\* after a success; failed attempt i that is not the last is followed by a
\* wait of 2^i seconds, the last by none; after m failures the failure string
\* is returned; m is 3 for the question and guidance requests and 2 for the
\* diagnostic and scoring requests.
C14_BoundedRetriesWithBackoff ==
    /\ Len(invocations) <= max_retries
    /\ \A i \in 1..(Len(invocations) - 1) : Failed(i)
    /\ \A i \in 1..Len(waits) : waits[i] = 2 ^ (i - 1)
    /\ Len(waits) < max_retries \/ (max_retries = 0 /\ waits = <<>>)
    /\ call_pc = "loop" => Len(waits) = attempt \/ (attempt = max_retries /\ Len(waits) = attempt - 1)
    /\ call_pc = "done" =>
          /\ Len(waits) = Len(invocations) - 1 \/ (max_retries = 0 /\ waits = <<>>)
          /\ call_returned.kind = "sentinel" <=>
                (Len(invocations) = max_retries /\ \A i \in 1..Len(invocations) : Failed(i))
    /\ call_request \in {"question", "guidance"} => max_retries = 3
    /\ call_request \in {"diagnostic", "scoring"} => max_retries = 2

\* Four failures with max_retries = 4: waits of 1, 2 and 4 seconds, none
\* after the last failure, then the failure string.
C14_Witness ==
    /\ call_pc = "done"
    /\ max_retries = 4
    /\ call_returned.kind = "sentinel"
    /\ Len(invocations) = 4
    /\ waits = <<1, 2, 4>>

-----------------------------------------------------------------------------
(* One structured-judgment request: analyze_interaction_sufficiency or *)
(* score_dimension called with any round count and any two model texts  *)

NotApplied == [raised |-> FALSE, requests |-> 0, verdict |-> "not applied"]

\* "raw_analysis": analysis_result and "raw_result": scoring_result: the
\* fallback keeps the text of the last attempt.
RetainedRaw(o1, o2) == o2

AgentInit ==
    /\ agent_request \in {"diagnostic", "scoring"}
    /\ agent_round \in IF agent_request = "diagnostic" THEN 0..MaxInteractions
                       ELSE MinRounds..MaxRounds
    /\ agent_texts \in IF agent_request = "diagnostic" THEN DiagOutputs \X DiagOutputs
                       ELSE ScoreOutputs \X ScoreOutputs
    /\ agent_out = NotApplied
    /\ IdleSession /\ IdleBand /\ IdleClean /\ IdleBatch
    /\ IdleCall /\ IdleMode /\ IdleTwin /\ IdleExtra

\* DiagnosticAgent.analyze_interaction_sufficiency
Analyze ==
    /\ agent_request = "diagnostic"
    /\ agent_out = NotApplied
    /\ LET out == analyze_interaction_sufficiency(agent_round, agent_texts[1], agent_texts[2])
       IN  agent_out' = [raised |-> out.raised, requests |-> out.requests,
                         verdict |-> "diagnostic", result |-> out.result,
                         raw |-> IF out.result.origin = "fallback"
                                 THEN RetainedRaw(agent_texts[1], agent_texts[2])
                                 ELSE NoValue]
    /\ UNCHANGED <<agent_request, agent_round, agent_texts>>

\* ScoringAgent.score_dimension
Score ==
    /\ agent_request = "scoring"
    /\ agent_out = NotApplied
    /\ LET out == score_dimension(agent_texts[1], agent_texts[2])
       IN  agent_out' = [raised |-> out.raised,
                         requests |-> IF ScoringAttempt(agent_texts[1]) = "retry" THEN 2 ELSE 1,
                         verdict |-> "scoring", result |-> out.result,
                         raw |-> IF out.result.origin = "fallback"
                                 THEN RetainedRaw(agent_texts[1], agent_texts[2])
                                 ELSE NoValue]
    /\ UNCHANGED <<agent_request, agent_round, agent_texts>>

AgentNext ==
    (Analyze \/ Score)
    /\ UNCHANGED <<sessionVars, bandVars, cleanVars, batchVars, callVars, modeVars, twinVars,
                   extraVars>>

AgentSpec == AgentInit /\ [][AgentNext]_vars

\* C15: the diagnostic policy decides on the round count r in strict
\* priority: r >= 5 gives sufficient, score, confidence 1.0 and r < 3 gives
\* not sufficient, continue, confidence 0.9, both without a model request;
\* only r in {3,4} issues a model request.
C15_DiagnosticPriority ==
    agent_out.verdict = "diagnostic" =>
        /\ agent_round >= 5 =>
              /\ agent_out.requests = 0 /\ ~agent_out.raised
              /\ agent_out.result.sufficient = TRUE
              /\ agent_out.result.recommendation = "score"
              /\ agent_out.result.confidence = 100
        /\ agent_round < 3 =>
              /\ agent_out.requests = 0 /\ ~agent_out.raised
              /\ agent_out.result.sufficient = FALSE
              /\ agent_out.result.recommendation = "continue"
              /\ agent_out.result.confidence = 90
        /\ agent_round \in {3, 4} <=> agent_out.requests >= 1

\* Round 5 with a model that would have answered continue: the ceiling
\* decides without a request.
C15_Witness ==
    /\ agent_out.verdict = "diagnostic"
    /\ agent_round = 5
    /\ agent_texts[1] = DiagObject(FALSE, "continue", 80)
    /\ agent_out.requests = 0
    /\ agent_out.result.recommendation = "score"

\* Neither text is an object holding every required field.
BothAttemptsFail ==
    /\ agent_out.requests = 2
    /\ agent_texts[1].kind # "object"
    /\ agent_texts[2].kind # "object"

\* C16: for r in {3,4}, when both attempts of the diagnostic request fail to
\* yield an object with all required fields, the result is the fallback:
\* not sufficient, continue, confidence 0.5.
C16_DiagnosticFallbackAfterTwoFailures ==
    (agent_out.verdict = "diagnostic" /\ agent_round \in {3, 4} /\ BothAttemptsFail) =>
        /\ ~agent_out.raised
        /\ agent_out.result.origin = "fallback"
        /\ agent_out.result.sufficient = FALSE
        /\ agent_out.result.recommendation = "continue"
        /\ agent_out.result.confidence = 50

\* What holds of the fallback when it is taken.
DiagnosticFallbackWhenTaken ==
    (agent_out.verdict = "diagnostic" /\ agent_out.result.origin = "fallback") =>
        /\ agent_round \in {3, 4}
        /\ agent_out.requests = 2
        /\ agent_out.result.sufficient = FALSE
        /\ agent_out.result.recommendation = "continue"
        /\ agent_out.result.confidence = 50
        /\ agent_out.raw = agent_texts[2]

\* C17: whatever text the model returns to a structured-judgment request, the
\* agent returns the validated object or, after at most 2 attempts, its
\* fallback with the raw text; nothing is raised.
C17_EveryTextParsedOrFallback ==
    agent_out.verdict \in {"diagnostic", "scoring"} =>
        /\ ~agent_out.raised
        /\ agent_out.requests <= 2
        /\ agent_out.result.origin \in {"model", "fallback", "ceiling", "floor"}
        /\ agent_out.result.origin = "fallback" => agent_out.raw = agent_texts[2]

\* C18: when both attempts of the scoring request fail, score_dimension
\* returns one fixed fallback ScoringResult, the same for every model output:
\* the fixed score, the fixed neutral level, a low confidence, the raw text
\* kept.
C18_ScoringFallbackAfterTwoFailures ==
    (agent_out.verdict = "scoring" /\ BothAttemptsFail) =>
        /\ ~agent_out.raised
        /\ agent_out.result.origin = "fallback"
        /\ agent_out.result.score = FallbackScore
        /\ agent_out.result.level = "average"
        /\ agent_out.result.confidence = 30
        /\ agent_out.raw = agent_texts[2]

\* What holds of the scoring fallback when it is taken.
ScoringFallbackWhenTaken ==
    (agent_out.verdict = "scoring" /\ agent_out.result.origin = "fallback") =>
        /\ agent_out.requests = 2
        /\ agent_out.result.score = FallbackScore
        /\ agent_out.result.level = "average"
        /\ agent_out.result.confidence = 30
        /\ agent_out.raw = agent_texts[2]

-----------------------------------------------------------------------------
(* AdaptiveNavigatorAgent.select_interaction_mode, one call

   mode_count is the interaction_count argument, mode_response the
   user_responses argument (its last element is all the function reads),
   mode_out the mode returned. *)

ModeInit ==
    /\ mode_count \in 0..MaxInteractions
    /\ mode_response \in
          {<<>>} \cup
          {<<content>> : content \in
              {c \in ResponseContents(MaxResponseLength) : IsContent(c)}}
    /\ mode_out = ""
    /\ IdleSession /\ IdleBand /\ IdleClean /\ IdleBatch
    /\ IdleCall /\ IdleAgent /\ IdleTwin /\ IdleExtra

SelectMode ==
    /\ mode_out = ""
    /\ mode_out' = select_interaction_mode(mode_response, mode_count)
    /\ UNCHANGED <<mode_count, mode_response>>

ModeNext ==
    /\ SelectMode
    /\ UNCHANGED <<sessionVars, bandVars, cleanVars, batchVars,
                   callVars, agentVars, twinVars, extraVars>>

ModeSpec == ModeInit /\ [][ModeNext]_vars

\* C19: the mode of a question depends on the round and the previous response
\* only: the first round gives normal; after it, a previous response shorter
\* than 20 characters or holding a hedge marker gives encourage, also when the
\* response is longer than 100 characters; otherwise a previous response
\* longer than 100 characters gives probe; otherwise (20 to 100 characters, no
\* hedge marker) the mode is normal.
C19_ModeFromRoundAndPreviousResponse ==
    mode_out # "" =>
        /\ mode_count = 0 => mode_out = "normal"
        /\ (mode_count > 0 /\ mode_response # <<>>) =>
              LET prev == mode_response[1]
                  hedged == prev.markers # {}
              IN  /\ (prev.length < 20 \/ hedged) => mode_out = "encourage"
                  /\ (prev.length > 100 /\ hedged) => mode_out = "encourage"
                  /\ (prev.length > 100 /\ ~hedged) => mode_out = "probe"
                  /\ (prev.length \in 20..100 /\ ~hedged) => mode_out = "normal"

\* A response longer than 100 characters that holds a hedge marker was
\* classified, after the first round.
C19_Witness ==
    /\ mode_count > 0
    /\ mode_response # <<>>
    /\ mode_response[1].length > 100
    /\ mode_response[1].markers # {}
    /\ mode_out = "encourage"

-----------------------------------------------------------------------------
(* Two runs of one dimension, side by side

   Both runs receive the same responses and talk to the same model; the modes
   of their questions are chosen freely.  twin_round is len(interactions),
   twin_modes the modes of the questions of each run, twin_replies the texts
   the model returned to the last diagnostic request of each run, twin_out
   the diagnostic decisions of each run, one per response. *)

InteractionModes == {"encourage", "normal", "probe"}

\* The texts the model answers a diagnostic request with in the two runs.
TwinReplies ==
    {DiagObject(TRUE, "score", 80), DiagObject(FALSE, "continue", 80),
     Text("nonjson")}

\* What the request of analyze_interaction_sufficiency holds of the
\* interactions: one entry per round with the mode of its question (the
\* questions and the responses are the same in both runs).
DiagnosticPrompt(modes) == [rounds |-> Len(modes), modes |-> modes]

\* The decision process_user_response takes after a response: none below
\* three responses, else what analyze_interaction_sufficiency returns, the
\* model answering both attempts with the same text.
TwinDecision(n, reply) ==
    IF n < MinRounds
    THEN [raised |-> FALSE, sufficient |-> FALSE, recommendation |-> "continue"]
    ELSE LET out == analyze_interaction_sufficiency(n, reply, reply)
         IN  [raised |-> out.raised, sufficient |-> out.result.sufficient,
              recommendation |-> out.result.recommendation]

\* should_score of process_user_response
ShouldScore(decision) ==
    decision.sufficient /\ decision.recommendation = "score"

IssuesRequest(n) == n \in MinRounds..(MaxRounds - 1)

TwinInit ==
    /\ twin_round = 1
    /\ twin_modes = << <<"normal">>, <<"normal">> >>
    /\ twin_replies = <<>>
    /\ twin_out = << <<>>, <<>> >>
    /\ IdleSession /\ IdleBand /\ IdleClean /\ IdleBatch
    /\ IdleCall /\ IdleAgent /\ IdleMode /\ IdleExtra

\* The same response is given to both runs and each takes its decision.
TwinRespond ==
    /\ Len(twin_out[1]) < twin_round
    /\ \E replyA \in TwinReplies, replyB \in TwinReplies :
        /\ DiagnosticPrompt(twin_modes[1]) = DiagnosticPrompt(twin_modes[2])
              => replyA = replyB
        /\ twin_replies' = IF IssuesRequest(twin_round)
                            THEN <<replyA, replyB>> ELSE <<>>
        /\ twin_out' = <<Append(twin_out[1], TwinDecision(twin_round, replyA)),
                         Append(twin_out[2], TwinDecision(twin_round, replyB))>>
    /\ UNCHANGED <<twin_round, twin_modes>>

\* Both runs go on with a next question, each in a mode of its own.
TwinAsk ==
    /\ Len(twin_out[1]) = twin_round
    /\ twin_round < MaxRounds
    /\ \A run \in {1, 2} :
        LET decision == twin_out[run][twin_round]
        IN  ~decision.raised /\ ~ShouldScore(decision)
    /\ \E modeA \in InteractionModes, modeB \in InteractionModes :
        twin_modes' = <<Append(twin_modes[1], modeA), Append(twin_modes[2], modeB)>>
    /\ twin_round' = twin_round + 1
    /\ UNCHANGED <<twin_replies, twin_out>>

TwinNext ==
    /\ (TwinRespond \/ TwinAsk)
    /\ UNCHANGED <<sessionVars, bandVars, cleanVars, batchVars,
                   callVars, agentVars, modeVars, extraVars>>

TwinSpec == TwinInit /\ [][TwinNext]_vars

\* C20: two runs of a dimension that receive the same responses and the same
\* model behaviour take the same diagnostic decisions, hence score at the
\* same round, whatever the modes of their questions are.
C20_ModeNeverAffectsDiagnostic ==
    twin_out # <<>> => twin_out[1] = twin_out[2]

\* Two runs whose questions have the same modes take the same decisions.
SameModesSameDecisions ==
    (twin_out # <<>> /\ twin_modes[1] = twin_modes[2]) => twin_out[1] = twin_out[2]

\* Decisions taken without a model request do not depend on the modes.
NoRequestSameDecision ==
    twin_out # <<>> =>
        \A k \in 1..Len(twin_out[1]) :
            ~IssuesRequest(k) => twin_out[1][k] = twin_out[2][k]

-----------------------------------------------------------------------------
(* process_user_response outside and inside a running session *)

\* A step of process_user_response: the one operation that leaves the counts
\* of start_assessment and force_score_current_dimension calls alone.
IsRespondStep ==
    /\ history'.starts = history.starts
    /\ history'.forces = history.forces
    /\ last_call'.op = "process_user_response"

SessionStores ==
    <<status, current_dimension, interactions, user_responses, dimension_scores,
      director_dimension, dimension_info, interaction_count,
      diagnostic_results, report, score_file>>

RespondStepOutsideRunning ==
    (IsRespondStep /\ status # "running") =>
        /\ last_call'.result = "error"
        /\ UNCHANGED SessionStores

RespondStepWhileRunning ==
    (IsRespondStep /\ status = "running") =>
        last_call'.result \in {"continue", "dimension_completed", "completed"}

\* C21: process_user_response called while the status is not running returns
\* an error result and changes nothing (no response recorded; dimension index,
\* scores, transcript, report and ledger unchanged); called while running it
\* returns one of continue, dimension_completed, completed.
C21_RespondErrorOutsideRunning ==
    [][RespondStepOutsideRunning /\ RespondStepWhileRunning]_vars

\* The first half of C21 alone: outside a running session the call returns
\* the error result and leaves the session as it was.
ErrorOutsideRunningChangesNothing == [][RespondStepOutsideRunning]_vars

-----------------------------------------------------------------------------
(* A batch run in which appends to the ledger meet I/O faults *)

FaultFates == Completing \cup {"exits"}

FaultInit ==
    /\ max_workers \in 1..MaxWorkers
    /\ fate \in [Users -> FaultFates]
    /\ pc = [t \in Users |-> "queued"]
    /\ round_num = [t \in Users |-> 0]
    /\ future = [t \in Users |-> "pending"]
    /\ lock_holder = 0
    /\ file_exists = [t \in Users |-> FALSE]
    /\ written = [t \in Users |-> <<>>]
    /\ ledger = [exists |-> FALSE, lines |-> <<>>]
    /\ collected = {}
    /\ results = <<>>
    /\ counts = [completed |-> 0, success |-> 0, failed |-> 0]
    /\ main_pc = "collecting"
    /\ IdleSession /\ IdleBand /\ IdleClean /\ IdleFunctions

FaultSpec == FaultInit /\ [][BatchStep]_vars

HasRow(t) == \E i \in 1..Len(ledger.lines) : ledger.lines[i] = UserRow(t)

\* C22: an I/O fault while appending to the ledger is caught inside the
\* session: the ledger lock is released, the session still ends as a success
\* and is collected as one by the batch runner, and every session without a
\* fault still gets its row into the ledger.
C22_LedgerFaultNonFatal ==
    /\ lock_holder # 0 => pc[lock_holder] \in {"locked", "checked", "written"}
    /\ \A t \in Users :
          (fate[t] \in LedgerFaults /\ Done(t)) =>
              /\ future[t] = "success"
              /\ lock_holder # t
              /\ t \in collected =>
                    \E i \in 1..Len(results) : results[i] = [user |-> t, success |-> TRUE]
    /\ \A s \in Users : (fate[s] = "completes" /\ Done(s)) => HasRow(s)

\* The first session's append failed at the flush, it was collected as a
\* success, and a sibling appended its row afterwards.
C22_Witness ==
    /\ main_pc = "summary"
    /\ fate[1] = "flush_fails" /\ fate[2] = "completes" /\ fate[3] = "open_fails"
    /\ results[1] = [user |-> 1, success |-> TRUE]
    /\ HasRow(2)
    /\ ~HasRow(1) /\ ~HasRow(3)
    /\ counts.success = NumUsers

-----------------------------------------------------------------------------
(* The worker pool *)

InFlight(p) ==
    {t \in Users : p[t] \in {"running", "calling", "waiting", "locked", "checked", "written"}}

PoolStep ==
    /\ Cardinality(InFlight(pc')) <= max_workers
    /\ \A t \in Users :
          /\ pc[t] # "queued" => pc'[t] # "queued"
          /\ pc[t] = "done" => pc'[t] = "done"
          /\ (pc[t] = "queued" /\ pc'[t] # "queued") =>
                /\ Cardinality(InFlight(pc)) < max_workers
                /\ \A u \in Users : u < t => pc[u] # "queued"
    /\ RunEnded' => \A t \in Users : pc'[t] = "done"

\* C23: at every moment of a batch run at most max_workers sessions are in
\* flight; a session is taken only by a worker that runs no other and stays
\* with it until it is done; every submitted identity is started once, none
\* is skipped and none is started again.
C23_PoolBoundedEachStartedOnce == [][PoolStep]_vars

\* The first task is done, the pool of more than one worker is full again
\* and holds the last task.
C23_Witness ==
    /\ Cardinality(Running) = max_workers
    /\ max_workers > 1
    /\ Done(1)
    /\ pc[NumUsers] = "running"

-----------------------------------------------------------------------------
(* A batch run with the model calls of the rounds made visible

   A round of a session is two steps here: the session enters a model call
   (pc "calling": the request is in flight, or _call_llm sleeps before a
   retry), then the call returns and process_user_response goes on. *)

LockFates == {"completes", "raises_in_loop", "exits"}

LockInit ==
    /\ max_workers \in 1..MaxWorkers
    /\ fate \in [Users -> LockFates]
    /\ pc = [t \in Users |-> "queued"]
    /\ round_num = [t \in Users |-> 0]
    /\ future = [t \in Users |-> "pending"]
    /\ lock_holder = 0
    /\ file_exists = [t \in Users |-> FALSE]
    /\ written = [t \in Users |-> <<>>]
    /\ ledger = [exists |-> FALSE, lines |-> <<>>]
    /\ collected = {}
    /\ results = <<>>
    /\ counts = [completed |-> 0, success |-> 0, failed |-> 0]
    /\ main_pc = "collecting"
    /\ IdleSession /\ IdleBand /\ IdleClean /\ IdleFunctions

\* The session of task t enters _call_llm.
BeginCall(t) ==
    /\ pc[t] = "running"
    /\ pc' = [pc EXCEPT ![t] = "calling"]
    /\ UNCHANGED <<max_workers, fate, round_num, future, lock_holder, file_exists,
                   written, ledger, collected, results, counts, main_pc>>

\* The call returns and the round goes on as in Round.
EndCall(t) ==
    /\ pc[t] = "calling"
    /\ \/ /\ fate[t] = "raises_in_loop"
          /\ pc' = [pc EXCEPT ![t] = "done"]
          /\ future' = [future EXCEPT ![t] = RoundLoopOutcome("Exception")]
          /\ UNCHANGED round_num
       \/ /\ round_num[t] + 1 < SessionRounds
          /\ round_num' = [round_num EXCEPT ![t] = @ + 1]
          /\ pc' = [pc EXCEPT ![t] = "running"]
          /\ UNCHANGED future
       \/ /\ fate[t] \in Completing
          /\ round_num[t] + 1 = SessionRounds
          /\ round_num' = [round_num EXCEPT ![t] = @ + 1]
          /\ pc' = [pc EXCEPT ![t] = "waiting"]
          /\ UNCHANGED future
    /\ UNCHANGED <<max_workers, fate, lock_holder, file_exists, written, ledger,
                   collected, results, counts, main_pc>>

LockNext ==
    \/ \E t \in Users :
          \/ StartTask(t)
          \/ BeginCall(t)
          \/ EndCall(t)
          \/ AcquireLock(t)
          \/ CheckExists(t)
          \/ WriteRow(t)
          \/ CloseAndRelease(t)
          \/ Collect(t)
    \/ PrintSummary
    \/ LeaveRun

LockStep == LockNext /\ UNCHANGED <<sessionVars, bandVars, cleanVars, functionVars>>

LockSpec == LockInit /\ [][LockStep]_vars

\* C24: a worker holds the ledger lock only while it checks the existence of
\* the ledger and appends to it; a worker in a model call or in a retry
\* backoff never holds the lock, so whenever a worker waits for the lock its
\* holder is in the append and not in a model call.
C24_LockNeverHeldAcrossModelCall ==
    /\ lock_holder # 0 => pc[lock_holder] \in {"locked", "checked", "written"}
    /\ \A t \in Users : pc[t] = "calling" => lock_holder # t
    /\ \A t \in Users : pc[t] \in {"locked", "checked", "written"} => lock_holder = t

\* One worker is in a model call while another holds the lock and a third
\* session is done with its append.
C24_Witness ==
    /\ \E t \in Users : pc[t] = "calling"
    /\ \E u \in Users : lock_holder = u /\ pc[u] = "checked"
    /\ \E s \in Users : Done(s) /\ HasRow(s)

-----------------------------------------------------------------------------
(* The console shared by the worker threads of a batch run

   Every worker thread prints from three modules: the runner
   (auto_simu_concurrent.py) prints with thread_safe_print, the assessment
   system (cctdi_system.py) and the agents (cctdi_agents.py) with print. *)

ConsoleSources == {"runner", "system", "agent"}

\* thread_safe_print enters "with PRINT_LOCK" before print; the print
\* statements of cctdi_system.py and cctdi_agents.py do not.
UsesPrintLock(source) == source = "runner"

ConsoleInit ==
    /\ console_pc = [t \in Users |-> "idle"]
    /\ console_source = [t \in Users |-> "none"]
    /\ console_lock = 0
    /\ console_count = [t \in Users |-> 0]
    /\ interrupt = NoInterrupt /\ calls = 0 /\ IdlePersona
    /\ IdleSession /\ IdleBand /\ IdleClean /\ IdleBatch
    /\ IdleCall /\ IdleAgent /\ IdleMode /\ IdleTwin

\* A thread reaches a console write of one of the modules.
ReachWrite(t) ==
    /\ console_pc[t] = "idle"
    /\ console_count[t] < MaxWrites
    /\ \E source \in ConsoleSources :
        /\ console_source' = [console_source EXCEPT ![t] = source]
        /\ console_pc' = [console_pc EXCEPT ![t] =
                             IF UsesPrintLock(source) THEN "waiting" ELSE "writing"]
    /\ UNCHANGED <<console_lock, console_count>>

\* with PRINT_LOCK:
AcquirePrintLock(t) ==
    /\ console_pc[t] = "waiting"
    /\ console_lock = 0
    /\ console_lock' = t
    /\ console_pc' = [console_pc EXCEPT ![t] = "writing"]
    /\ UNCHANGED <<console_source, console_count>>

\* print returns; thread_safe_print leaves "with PRINT_LOCK".
EndWrite(t) ==
    /\ console_pc[t] = "writing"
    /\ console_pc' = [console_pc EXCEPT ![t] = "idle"]
    /\ console_count' = [console_count EXCEPT ![t] = @ + 1]
    /\ console_lock' = IF console_lock = t THEN 0 ELSE console_lock
    /\ UNCHANGED console_source

ConsoleNext ==
    /\ \E t \in Users : ReachWrite(t) \/ AcquirePrintLock(t) \/ EndWrite(t)
    /\ UNCHANGED <<sessionVars, bandVars, cleanVars, batchVars,
                   callVars, agentVars, modeVars, twinVars, interrupt, calls,
                   personaVars>>

ConsoleSpec == ConsoleInit /\ [][ConsoleNext]_vars

Writers == {t \in Users : console_pc[t] = "writing"}

\* C25: every console write a worker makes, from the runner, the assessment
\* system or the agents, happens while that worker holds the console lock, so
\* the console writes of two workers never overlap.
C25_ConsoleWritesUnderLock ==
    /\ \A t \in Writers : console_lock = t
    /\ Cardinality(Writers) <= 1

\* What holds: the writes made through thread_safe_print exclude each other.
RunnerWritesExcludeEachOther ==
    \A t, u \in Writers :
        (console_source[t] = "runner" /\ console_source[u] = "runner") => t = u

-----------------------------------------------------------------------------
(* A batch run that receives an external interrupt

   SIGINT becomes a KeyboardInterrupt in the main thread, which is in the
   as_completed loop of ConcurrentBatchSimulationRunner.run.  The handler of
   that loop is "except Exception"; the worker threads, where the round loops
   and their "except KeyboardInterrupt" run, receive nothing. *)

InterruptFates == {"completes", "raises_in_loop"}

InterruptInit ==
    /\ max_workers \in 1..MaxWorkers
    /\ fate \in [Users -> InterruptFates]
    /\ pc = [t \in Users |-> "queued"]
    /\ round_num = [t \in Users |-> 0]
    /\ future = [t \in Users |-> "pending"]
    /\ lock_holder = 0
    /\ file_exists = [t \in Users |-> FALSE]
    /\ written = [t \in Users |-> <<>>]
    /\ ledger = [exists |-> FALSE, lines |-> <<>>]
    /\ collected = {}
    /\ results = <<>>
    /\ counts = [completed |-> 0, success |-> 0, failed |-> 0]
    /\ main_pc = "collecting"
    /\ IdleSession /\ IdleBand /\ IdleClean /\ IdleFunctions

\* KeyboardInterrupt is raised in the main thread; "except Exception" does
\* not catch it, so it leaves the loop and reaches the end of the with block.
Interrupt ==
    /\ main_pc = "collecting"
    /\ ~interrupt.arrived
    /\ ~Catches("KeyboardInterrupt")
    /\ interrupt' = [arrived |-> TRUE, in_flight |-> Running]
    /\ main_pc' = "leaving"
    /\ UNCHANGED <<max_workers, fate, pc, round_num, future, lock_holder, file_exists,
                   written, ledger, collected, results, counts>>

InterruptNext ==
    \/ BatchNext /\ UNCHANGED <<sessionVars, bandVars, cleanVars, functionVars>>
    \/ Interrupt /\ UNCHANGED <<sessionVars, bandVars, cleanVars, callVars, agentVars,
                                modeVars, twinVars, consoleVars, calls, personaVars>>

InterruptSpec == InterruptInit /\ [][InterruptNext]_vars

ResultsOf(t) == {i \in 1..Len(results) : results[i].user = t}

\* C26: when an external interrupt arrives during a batch run, each session
\* in flight at that moment is aborted and yields exactly one failed result
\* with the user-interrupt reason; a session that had completed keeps its
\* result and its ledger row.
C26_InterruptAbortsSessionInFlight ==
    (interrupt.arrived /\ RunEnded) =>
        /\ \A t \in interrupt.in_flight :
              /\ future[t] = "interrupted"
              /\ Cardinality(ResultsOf(t)) = 1
              /\ \A i \in ResultsOf(t) : ~results[i].success
        /\ \A s \in collected :
              /\ Cardinality(ResultsOf(s)) = 1
              /\ fate[s] = "completes" => HasRow(s)

\* What the run does after an interrupt: every submitted session, in flight
\* or still queued, runs to its own end; none is aborted and none gets a
\* result with the interrupt reason; run is left without a summary.
InterruptAbortsNoSession ==
    (interrupt.arrived /\ RunEnded) =>
        /\ main_pc = "left"
        /\ \A t \in Users :
              /\ Done(t)
              /\ future[t] = (IF fate[t] = "completes" THEN "success" ELSE "failed")
              /\ fate[t] = "completes" => HasRow(t)
        /\ \A t \in Users \ collected : ResultsOf(t) = {}

-----------------------------------------------------------------------------
(* One session of the runner with its process_user_response calls counted

   The model answers the diagnostic request with a judgment to score, a
   judgment to continue, a text that is not JSON, the failure text of
   _call_llm, or a JSON scalar; the scoring request with a score, a text that
   is not JSON, the failure text, or an object whose score is a string. *)

CountedInit ==
    /\ has_user = TRUE
    /\ llm = [diagnostic |-> {DiagObject(TRUE, "score", 80), DiagObject(FALSE, "continue", 80),
                              Text("nonjson"), Text("sentinel"), Text("scalar")},
              scoring |-> {ScoreObject("num", 75), Text("nonjson"), Text("sentinel"),
                           ScoreObject("str", 0)}]
    /\ status = "initialized"
    /\ current_dimension = 0
    /\ interactions = <<>>
    /\ user_responses = <<>>
    /\ dimension_scores = [d \in Dimensions |-> NoScore]
    /\ director_dimension = 1
    /\ dimension_info = 0
    /\ interaction_count = 0
    /\ diagnostic_results = <<>>
    /\ report = NoReport
    /\ score_file = [exists |-> FALSE, lines |-> <<>>]
    /\ last_call = Call("__init__", "", 0, 0)
    /\ history = [starts |-> 0, forces |-> 0, in_turn |-> TRUE]
    /\ IdleBand /\ IdleClean /\ IdleBatch /\ IdleFunctions

CountedNext ==
    \/ /\ RunnerStart
       /\ UNCHANGED <<bandVars, cleanVars, batchVars, callVars, agentVars, modeVars,
                      twinVars, consoleVars, interrupt, calls, personaVars>>
    \/ /\ RunnerRespond
       /\ calls' = calls + 1
       /\ UNCHANGED <<bandVars, cleanVars, batchVars, callVars, agentVars, modeVars,
                      twinVars, consoleVars, interrupt, personaVars>>

\* The runner's loop goes on as long as it can take a step.
CountedSpec == CountedInit /\ [][CountedNext]_vars /\ WF_vars(CountedNext)

MinCalls == NumDimensions * MinRounds
MaxCalls == NumDimensions * MaxRounds

\* C27: a session that is given a response to every question terminates with
\* status completed, after at least 21 and at most 35 process_user_response
\* calls, whatever the model returns.
C27_SessionTerminatesWithinBounds ==
    /\ <>(status = "completed")
    /\ [](status = "completed" => calls \in MinCalls..MaxCalls)

\* What holds for every model behaviour: the runner's loop ends, by the
\* completion of the session or by an exception, within 35 calls, and a
\* completion takes at least 21.
SessionEndsWithinBounds ==
    /\ <>(status = "completed" \/ last_call.result = "raised")
    /\ [](calls <= MaxCalls)
    /\ [](status = "completed" => calls \in MinCalls..MaxCalls)

-----------------------------------------------------------------------------
(* The persona files of a batch: their order and their identities

   A file name is the sequence of its characters before ".txt".  The
   characters are two digits and a letter. *)

NameChars == {"0", "1", "a"}

isdigit(char) == char \in {"0", "1"}

DigitValue(char) == IF char = "1" THEN 1 ELSE 0

PersonaNames ==
    UNION {[1..n -> NameChars] : n \in 1..MaxNameLen}

\* The loop of extract_number and of _extract_user_info: the characters up to
\* the first one that is not a digit.
RECURSIVE LeadingDigits(_)
LeadingDigits(name) ==
    IF name = <<>> \/ ~isdigit(Head(name)) THEN <<>>
    ELSE <<Head(name)>> \o LeadingDigits(Tail(name))

\* int(num_str)
RECURSIVE int(_)
int(num_str) ==
    IF num_str = <<>> THEN 0
    ELSE 10 * int(SubSeq(num_str, 1, Len(num_str) - 1))
         + DigitValue(num_str[Len(num_str)])

\* extract_number (auto_simu_concurrent.py 441-451)
extract_number(name) ==
    LET num_str == LeadingDigits(name)
    IN  IF num_str # <<>> THEN int(num_str) ELSE 999

\* sorted(txt_files, key=extract_number): a stable sort, each element put
\* behind the elements whose key is not larger.
RECURSIVE InsertByNumber(_, _)
InsertByNumber(sorted, name) ==
    IF sorted = <<>> THEN <<name>>
    ELSE IF extract_number(Head(sorted)) <= extract_number(name)
         THEN <<Head(sorted)>> \o InsertByNumber(Tail(sorted), name)
         ELSE <<name>> \o sorted

RECURSIVE _scan_persona_files(_)
_scan_persona_files(names) ==
    IF names = <<>> THEN <<>>
    ELSE InsertByNumber(_scan_persona_files(SubSeq(names, 1, Len(names) - 1)),
                        names[Len(names)])

\* The text "未知用户", one character here that no file name holds.
DefaultUserName == <<"unknown user">>

\* _extract_user_info (auto_simu_concurrent.py 201-238)
_extract_user_info(name) ==
    LET digits == LeadingDigits(name)
        rest == SubSeq(name, Len(digits) + 1, Len(name))
    IN  [user_id |-> IF digits = <<>> THEN <<"0">> ELSE digits,
         user_name |-> IF rest = <<>> THEN DefaultUserName ELSE rest]

\* _generate_session_id (cctdi_system.py 168-177) for a runner's session:
\* user_id and user_name are never empty there.
_generate_session_id(user_id, user_name) == user_id \o user_name

PersonaInit ==
    /\ persona_names \in {<<a, b>> : a \in PersonaNames, b \in PersonaNames}
    /\ persona_names[1] # persona_names[2]
    /\ persona_files = <<>>
    /\ user_info = <<>>
    /\ IdleSession /\ IdleBand /\ IdleClean /\ IdleBatch
    /\ IdleCall /\ IdleAgent /\ IdleMode /\ IdleTwin
    /\ IdleConsole /\ interrupt = NoInterrupt /\ calls = 0

\* ConcurrentBatchSimulationRunner.__init__: self.persona_files
ScanPersonaFiles ==
    /\ persona_files = <<>>
    /\ persona_files' = _scan_persona_files(persona_names)
    /\ UNCHANGED <<persona_names, user_info>>

\* SimulationRunner.__init__ for every file: the identity and the session id.
ExtractUserInfo ==
    /\ persona_files # <<>>
    /\ user_info = <<>>
    /\ user_info' =
          [i \in 1..Len(persona_files) |->
              LET info == _extract_user_info(persona_files[i])
              IN  [user_id |-> info.user_id, user_name |-> info.user_name,
                   session_id |-> _generate_session_id(info.user_id, info.user_name)]]
    /\ UNCHANGED <<persona_names, persona_files>>

PersonaNext ==
    /\ (ScanPersonaFiles \/ ExtractUserInfo)
    /\ UNCHANGED <<sessionVars, bandVars, cleanVars, batchVars, callVars, agentVars,
                   modeVars, twinVars, consoleVars, interrupt, calls>>

PersonaSpec == PersonaInit /\ [][PersonaNext]_vars

HasNumber(name) == LeadingDigits(name) # <<>>

\* C28: the batch submits the identities in ascending order of the number
\* their leading digits spell, and every identity without leading digits
\* comes after every identity with leading digits, whatever the number.
C28_NumericAscendingThenUnnumbered ==
    \A i, j \in 1..Len(persona_files) :
        i < j =>
            /\ (HasNumber(persona_files[i]) /\ HasNumber(persona_files[j]))
                  => int(LeadingDigits(persona_files[i])) <= int(LeadingDigits(persona_files[j]))
            /\ ~(~HasNumber(persona_files[i]) /\ HasNumber(persona_files[j]))

\* What holds: the files are in ascending order of extract_number, which
\* gives a file without leading digits the number 999.
SortedByExtractNumber ==
    \A i, j \in 1..Len(persona_files) :
        i < j => extract_number(persona_files[i]) <= extract_number(persona_files[j])

\* C29: any two distinct persona file names of a batch get distinct session
\* ids, also a name without leading digits (user_id "0") and a name that is
\* digits only (the default user_name).
C29_DistinctNamesDistinctSessionIds ==
    \A i, j \in 1..Len(user_info) :
        i # j => user_info[i].session_id # user_info[j].session_id

\* What holds: two names that both start with a digit, or that both start
\* with another character, get distinct session ids.
DistinctSessionIdsWithinKind ==
    \A i, j \in 1..Len(user_info) :
        (i # j /\ (HasNumber(persona_files[i]) <=> HasNumber(persona_files[j])))
            => user_info[i].session_id # user_info[j].session_id

-----------------------------------------------------------------------------
(* One session of the runner whose diagnostic model returns objects that hold
   every required field with values outside their ranges: a recommendation
   that is neither "continue" nor "score", a confidence of 1.5. *)

ValuesInit ==
    /\ has_user = TRUE
    /\ llm = [diagnostic |-> {DiagObject(TRUE, "score", 80), DiagObject(FALSE, "continue", 80),
                              DiagObject(TRUE, "maybe", 80), DiagObject(FALSE, "continue", 150)},
              scoring |-> {ScoreObject("num", 75)}]
    /\ status = "initialized"
    /\ current_dimension = 0
    /\ interactions = <<>>
    /\ user_responses = <<>>
    /\ dimension_scores = [d \in Dimensions |-> NoScore]
    /\ director_dimension = 1
    /\ dimension_info = 0
    /\ interaction_count = 0
    /\ diagnostic_results = <<>>
    /\ report = NoReport
    /\ score_file = [exists |-> FALSE, lines |-> <<>>]
    /\ last_call = Call("__init__", "", 0, 0)
    /\ history = [starts |-> 0, forces |-> 0, in_turn |-> TRUE]
    /\ IdleBand /\ IdleClean /\ IdleBatch /\ IdleFunctions

ValuesSpec == ValuesInit /\ [][Next]_vars

\* C30: every DiagnosticResult recorded in a session has a boolean
\* sufficient, a recommendation in {continue, score} and a confidence in
\* [0,1], whatever object that passes the required-field check the model
\* returns, and no such object makes process_user_response fail.
C30_RecordedDiagnosticsWellFormed ==
    /\ \A i \in 1..Len(diagnostic_results) :
          /\ diagnostic_results[i].sufficient \in BOOLEAN
          /\ diagnostic_results[i].recommendation \in {"continue", "score"}
          /\ diagnostic_results[i].confidence \in 0..100
    /\ last_call.result # "raised"

\* What holds: the results the agent builds itself (ceiling, floor, fallback)
\* are well formed, and a dimension is scored only on a result that is
\* sufficient and recommends "score".
OwnDiagnosticsWellFormed ==
    /\ \A i \in 1..Len(diagnostic_results) :
          diagnostic_results[i].origin # "model" =>
              /\ diagnostic_results[i].sufficient \in BOOLEAN
              /\ diagnostic_results[i].recommendation \in {"continue", "score"}
              /\ diagnostic_results[i].confidence \in 0..100
    /\ last_call.result # "raised"


-----------------------------------------------------------------------------
(* The diagnostic decision and the round loop of one dimension *)

\* A step in which process_user_response records a response of round
\* MinRounds or later in a running session.
RespondAtDiagnosedRound ==
    /\ IsRespondStep
    /\ status = "running"
    /\ last_call'.responses >= MinRounds

\* The decision recorded last for the current dimension.
LastDecision == diagnostic_results[Len(diagnostic_results)]

\* C31: after a response is recorded at round r >= 3 the dimension is scored
\* exactly when the recommendation of the diagnostic decision is score;
\* otherwise exactly one next question is generated, the session stays running
\* with a pending question and the round counter increases by exactly 1.
C31_ScoredExactlyOnScoreRecommendation ==
    [][RespondAtDiagnosedRound =>
          /\ Scored(last_call'.result) \/ last_call'.result = "continue"
          /\ last_call'.result = "continue" =>
                /\ Len(diagnostic_results') = Len(diagnostic_results) + 1
                /\ LastDecision'.recommendation # "score"
                /\ Len(interactions') = Len(interactions) + 1
                /\ interaction_count' = interaction_count + 1
                /\ status' = "running"
          /\ last_call'.result = "completed" =>
                LastDecision'.recommendation = "score"]_vars

\* The dimension went on although the recorded recommendation is score.
C31_ContinuedOnScoreRecommendation ==
    /\ last_call.op = "process_user_response"
    /\ last_call.result = "continue"
    /\ last_call.responses >= MinRounds
    /\ diagnostic_results # <<>>
    /\ LastDecision.recommendation = "score"
    /\ ~LastDecision.sufficient


\* The number of DiagnosticResults a dimension holds after its r-th response.
DiagnosticsAfter(r) == IF r < MinRounds THEN 0 ELSE r - (MinRounds - 1)

\* C32: in every dimension, after its r-th response has been processed, the
\* number of DiagnosticResults recorded for that dimension is max(0, r - 2);
\* the results of a previous dimension are never counted in the next.
C32_OneDiagnosticPerRoundFromThree ==
    status \in {"running", "completed"} =>
        Len(diagnostic_results) = DiagnosticsAfter(Len(user_responses))


\* Between public operations of a running session one question is pending.
QuestionPending ==
    /\ Len(interactions) = Len(user_responses) + 1
    /\ interaction_count = Len(interactions)
    /\ history.in_turn

\* A step that scores the current dimension: the transcript handed to
\* score_dimension has as many responses as questions.
ScoredTranscriptPaired ==
    (Scored(last_call'.result) /\ last_call' # last_call) =>
        last_call'.responses = Len(interactions)

\* C33: between public operations of a running session the current dimension
\* has exactly one more Interaction than UserResponses, interaction_count
\* equals the number of Interactions and the k-th response answers the k-th
\* question; when the dimension is scored the two lists have equal length.
C33_ResponsesPairedWithQuestions ==
    /\ [](status = "running" => QuestionPending)
    /\ [][ScoredTranscriptPaired]_vars


\* A step that enters a dimension: start_assessment for dimension 1,
\* _advance_to_next_dimension for dimensions 2..7.
EntersDimension == dimension_info' # dimension_info

StatusRank(s) == CASE s = "initialized" -> 0 [] s = "running" -> 1 [] s = "completed" -> 2

\* C35: the status of a session only moves forward, initialized to running to
\* completed; once it is completed no call to start_assessment,
\* process_user_response or force_score_current_dimension changes the status,
\* the dimension index or the stored scores.
C35_StatusOnlyMovesForward ==
    [][/\ StatusRank(status') >= StatusRank(status)
       /\ status = "completed" =>
             /\ status' = "completed"
             /\ current_dimension' = current_dimension
             /\ dimension_scores' = dimension_scores]_vars

\* The completed session is running again in dimension 1.
C35_RunningAgainAfterCompletion ==
    /\ status = "running"
    /\ report.writes > 0
    /\ last_call.op = "start_assessment"


-----------------------------------------------------------------------------
(* A session in which every model call fails at the transport level *)

(* _call_llm returns its failure text for every request (cctdi_agents.py
   71-74): the guidance and the questions are that text, the diagnostic and
   the scoring requests get it on both attempts.  VirtualUser.generate_response
   catches its own failure and answers with a fixed sentence
   (auto_simu_concurrent.py 159-161).  The ledger is the shared file of
   earlier runs, opened for append. *)

\* The row an earlier session left in the ledger.
PriorRow ==
    [kind |-> "row", scores |-> [d \in Dimensions |-> FallbackScore],
     total |-> NumDimensions * FallbackScore]

PriorLedgers ==
    {[exists |-> FALSE, lines |-> <<>>]} \cup
    {[exists |-> TRUE, lines |-> <<HeaderLine>> \o [i \in 1..k |-> PriorRow]] :
        k \in 0..MaxPriorRows}

TransportInit ==
    /\ has_user = TRUE
    /\ llm = [diagnostic |-> {Text("sentinel")}, scoring |-> {Text("sentinel")}]
    /\ status = "initialized"
    /\ current_dimension = 0
    /\ interactions = <<>>
    /\ user_responses = <<>>
    /\ dimension_scores = [d \in Dimensions |-> NoScore]
    /\ director_dimension = 1
    /\ dimension_info = 0
    /\ interaction_count = 0
    /\ diagnostic_results = <<>>
    /\ report = NoReport
    /\ score_file \in PriorLedgers
    /\ last_call = Call("__init__", "", 0, 0)
    /\ history = [starts |-> 0, forces |-> 0, in_turn |-> TRUE]
    /\ IdleBand /\ IdleClean /\ IdleBatch /\ IdleFunctions

TransportNext ==
    \/ RunnerStart /\ UNCHANGED <<bandVars, cleanVars, batchVars, functionVars>>
    \/ RunnerRespond /\ UNCHANGED <<bandVars, cleanVars, batchVars, functionVars>>

\* The runner's loop goes on as long as the status is running.
TransportSpec == TransportInit /\ [][TransportNext]_vars /\ WF_vars(TransportNext)

\* A step that scores a dimension: it does so on the response of round
\* MaxRounds and stores the fixed fallback score.
FallbackScoredAtCeiling ==
    (Scored(last_call'.result) /\ last_call' # last_call) =>
        /\ last_call'.responses = MaxRounds
        /\ dimension_scores'[last_call'.dimension] = ScoringFallback

\* The step that completes the session: the total is 7 times the fallback
\* score; before it the ledger is left alone.
CompletesWithFallbackTotal ==
    IF status' = "completed" /\ status # "completed"
    THEN /\ report'.writes = 1
         /\ report'.total_score = NumDimensions * FallbackScore
         /\ \A d \in Dimensions : dimension_scores'[d] = ScoringFallback
    ELSE score_file' = score_file

\* The completing step appends one row to the ledger.
OneRowAppended ==
    /\ Cardinality(LedgerRows') = Cardinality(LedgerRows) + 1
    /\ score_file'.lines[Len(score_file'.lines)] =
           RowLine(dimension_scores', NumDimensions * FallbackScore)

-----------------------------------------------------------------------------
(* Ledger rows and successful results of a batch *)

\* The data rows the batch added to the ledger.
BatchRows == {i \in 1..Len(ledger.lines) : ledger.lines[i].kind = "row"}

\* The results of the batch with success = true.
Successes == {i \in 1..Len(results) : results[i].success}

\* C37: a session that ends with a failed result (an exception or interrupt in
\* its round loop) contributes no ledger row, so at the end of a batch over
\* distinct identities the number of data rows added to the ledger equals the
\* number of results with success = true, provided no ledger write fault
\* occurred.
C37_LedgerRowsEqualSuccesses ==
    /\ \A t \in Users : future[t] = "failed" => ~HasRow(t)
    /\ RunEnded => Cardinality(BatchRows) = Cardinality(Successes)


-----------------------------------------------------------------------------
(* The two locks of a batch run: the ledger lock and the console lock

   Each worker thread runs one session at a time.  Its console writes through
   thread_safe_print take PRINT_LOCK (auto_simu_concurrent.py 38-41); its
   append to the ledger takes _USER_SCORES_LOCK (cctdi_system.py 492-505).
   The body of "with _USER_SCORES_LOCK" contains no console write: the print
   of line 508 and the one of the handler at line 511 come after the block
   and do not take PRINT_LOCK.  A batch session is quiet: _run_single_user
   calls thread_safe_print once before the session (auto_simu_concurrent.py
   471) and once after it (478-486). *)

\* A variant in which the thread also calls thread_safe_print inside the
\* ledger block, before the row is written.
PrintsInLedgerBlock(position, count) ==
    \/ position = "running" /\ count = 0
    \/ position = "checked" /\ count = 1
    \/ position = "done" /\ count < 3

\* thread_safe_print is due in thread t: at the start of its task, when it
\* has printed nothing yet, and after its session, when it has printed once.
PrintDue(position, count) ==
    \/ position = "running" /\ count = 0
    \/ position = "done" /\ count = 1

\* Every session reaches the ledger; at most one meets an I/O fault there.
TwoLockFates ==
    {f \in [Users -> Completing] :
        \A t, u \in Users : (f[t] \in LedgerFaults /\ f[u] \in LedgerFaults) => t = u}

TwoLockInit ==
    /\ max_workers \in 1..MaxWorkers
    /\ fate \in TwoLockFates
    /\ pc = [t \in Users |-> "queued"]
    /\ round_num = [t \in Users |-> 0]
    /\ future = [t \in Users |-> "pending"]
    /\ lock_holder = 0
    /\ file_exists = [t \in Users |-> FALSE]
    /\ written = [t \in Users |-> <<>>]
    /\ ledger = [exists |-> FALSE, lines |-> <<>>]
    /\ collected = {}
    /\ results = <<>>
    /\ counts = [completed |-> 0, success |-> 0, failed |-> 0]
    /\ main_pc = "collecting"
    /\ console_pc = [t \in Users |-> "idle"]
    /\ console_source = [t \in Users |-> "none"]
    /\ console_lock = 0
    /\ console_count = [t \in Users |-> 0]
    /\ interrupt = NoInterrupt /\ calls = 0 /\ IdlePersona
    /\ IdleSession /\ IdleBand /\ IdleClean
    /\ IdleCall /\ IdleAgent /\ IdleMode /\ IdleTwin

\* A step of the session of thread t, which is not in thread_safe_print and
\* has announced its task.
SessionStep(t) ==
    /\ console_pc[t] = "idle"
    /\ ~PrintDue(pc[t], console_count[t])
    /\ \/ StartTask(t)
       \/ Round(t)
       \/ AcquireLock(t)
       \/ CheckExists(t)
       \/ WriteRow(t)
       \/ CloseAndRelease(t)
    /\ UNCHANGED consoleVars

\* print raises inside thread_safe_print: leaving "with PRINT_LOCK" by the
\* exception releases the lock; in the round loop the handler turns the
\* exception into a failed result.
PrintRaises(t) ==
    /\ console_pc[t] = "writing"
    /\ console_pc' = [console_pc EXCEPT ![t] = "idle"]
    /\ console_count' = [console_count EXCEPT ![t] = @ + 1]
    /\ console_lock' = IF console_lock = t THEN 0 ELSE console_lock
    /\ UNCHANGED console_source
    /\ IF pc[t] = "done"
       THEN UNCHANGED <<pc, future>>
       ELSE /\ pc' = [pc EXCEPT ![t] = "done"]
            /\ future' = [future EXCEPT ![t] = RoundLoopOutcome("Exception")]
    /\ UNCHANGED <<max_workers, fate, round_num, lock_holder, file_exists, written,
                   ledger, collected, results, counts, main_pc>>

\* Thread t calls thread_safe_print.
ReachPrint(t) ==
    /\ console_pc[t] = "idle"
    /\ PrintDue(pc[t], console_count[t])
    /\ console_source' = [console_source EXCEPT ![t] = "runner"]
    /\ console_pc' = [console_pc EXCEPT ![t] = "waiting"]
    /\ UNCHANGED <<console_lock, console_count>>

\* A call of thread_safe_print by thread t: entered, waiting for PRINT_LOCK,
\* print made or failed.
ConsoleStep(t) ==
    \/ ReachPrint(t) /\ UNCHANGED batchVars
    \/ AcquirePrintLock(t) /\ UNCHANGED batchVars
    \/ EndWrite(t) /\ UNCHANGED batchVars
    \/ PrintRaises(t)

TwoLockNext ==
    /\ \E t \in Users : SessionStep(t) \/ ConsoleStep(t)
    /\ UNCHANGED <<sessionVars, bandVars, cleanVars, callVars, agentVars, modeVars,
                   twinVars, interrupt, calls, personaVars>>

TwoLockSpec == TwoLockInit /\ [][TwoLockNext]_vars

\* The worker threads that have a task and are not through with it.
Unfinished ==
    {t \in Users : \/ pc[t] \notin {"queued", "done"}
                   \/ console_pc[t] # "idle"
                   \/ PrintDue(pc[t], console_count[t])}

\* Thread t waits for a lock another thread holds.
Blocked(t) ==
    \/ console_pc[t] = "waiting" /\ console_lock # 0
    \/ console_pc[t] = "idle" /\ pc[t] = "waiting" /\ lock_holder # 0

\* C38: no worker ever holds the ledger lock and the console lock at the same
\* time, and each lock is released on every path including exceptions; hence
\* in every interleaving of the workers no state is reachable in which all
\* unfinished workers are blocked waiting for a lock (no deadlock).
C38_NoWorkerHoldsBothLocks ==
    /\ \A t \in Users : ~(lock_holder = t /\ console_lock = t)
    /\ lock_holder # 0 => pc[lock_holder] \in {"locked", "checked", "written"}
    /\ console_lock # 0 => console_pc[console_lock] = "writing"
    /\ Unfinished # {} => \E t \in Unfinished : ~Blocked(t)

\* One worker holds the ledger lock while another, blocked by nobody, holds
\* the console lock, after a session left the ledger block by an exception.
C38_Witness ==
    /\ \E t, u \in Users :
          /\ t # u
          /\ lock_holder = t
          /\ console_lock = u
    /\ \E s \in Users : 
          /\ Done(s) /\ fate[s] = "open_fails" /\ future[s] = "success"
          /\ console_count[s] = 2


-----------------------------------------------------------------------------
(* force_score_current_dimension *)

\* A step of force_score_current_dimension.
IsForceStep == history'.forces = history.forces + 1

\* The current dimension was scored and the session went on to the next
\* dimension, or completed after the last, as _score_current_dimension does
\* for a diagnostic decision of score.
ScoredAndAdvanced ==
    /\ Scored(last_call'.result)
    /\ dimension_scores'[dimension_info].origin # "none"
    /\ \A d \in Dimensions \ {dimension_info} : dimension_scores'[d] = dimension_scores[d]
    /\ IF dimension_info < NumDimensions
       THEN /\ last_call'.result = "dimension_completed"
            /\ status' = "running"
            /\ current_dimension' = dimension_info + 1
            /\ dimension_info' = dimension_info + 1
            /\ user_responses' = <<>>
            /\ diagnostic_results' = <<>>
            /\ Len(interactions') = 1
            /\ interaction_count' = 1
       ELSE /\ last_call'.result = "completed"
            /\ status' = "completed"
            /\ report'.writes = report.writes + 1

\* C39: force_score_current_dimension called when the current dimension has
\* no recorded response returns an error result and changes nothing (no score
\* stored; dimension index, status, transcript and ledger unchanged); called
\* with at least one recorded response on a running session it scores the
\* current dimension and advances exactly as a diagnostic decision of score
\* would, even when fewer than 3 rounds have elapsed.
C39_ForceScoreErrorOrScores ==
    [][IsForceStep =>
          IF Len(user_responses) = 0
          THEN /\ last_call'.result = "error"
               /\ UNCHANGED SessionStores
          ELSE status = "running" => ScoredAndAdvanced]_vars

\* What holds: a forced scoring that does not raise scores and advances.
ForceScoresUnlessScoringRaises ==
    [][(IsForceStep /\ last_call'.result # "raised") =>
          IF Len(user_responses) = 0
          THEN /\ last_call'.result = "error"
               /\ UNCHANGED SessionStores
          ELSE status = "running" => ScoredAndAdvanced]_vars

\* A forced scoring with fewer than 3 recorded responses raised: nothing was
\* scored.
C39_ForcedScoringRaised ==
    /\ last_call.op = "force_score_current_dimension"
    /\ last_call.result = "raised"
    /\ last_call.responses < MinRounds
    /\ status = "running"
    /\ dimension_scores[dimension_info].origin = "none"

=============================================================================
